---- MODULE Spec2Model ----
(***************************************************************************)
(* State-machine model of the walking control core of                      *)
(* vhip_walking_controller: the Stabilizer feedback loop                   *)
(* (src/src/Stabilizer.cpp), the Controller tick, reset, pause and preview *)
(* bookkeeping (src/src/Controller.cpp, Controller.h) and the footstep     *)
(* plan cursor they read.                                                  *)
(*                                                                         *)
(* Numbers.  The program computes on doubles and 3-vectors; the model      *)
(* computes on integers in fixed point and on the sagittal (x, z) plane:   *)
(* a vector is a record [x, z], a moment is its y component, the contact   *)
(* frames are not rotated.  Lengths are in units of about 1.09 cm, so that *)
(* gravity is 900, the reference CoM height 100 and the pendulum           *)
(* frequency omega = 3.  A double division a / b is Div(a, b), truncated   *)
(* towards zero, and a division by zero yields the NaN marker.  Time is    *)
(* counted in control ticks; the integrators' dt is 1 / DT_DEN time unit.  *)
(***************************************************************************)
EXTENDS Integers, Sequences, FiniteSets, TLC

VARIABLES
  stab,      \* the Stabilizer object (Controller::stabilizer_)
  pendulum,  \* the reference Pendulum (Controller::pendulum_)
  ctl,       \* the Controller's own attributes
  plan,      \* the FootstepPlan (Controller::plan)
  call       \* the operation invoked last, its inputs and its return value

vars == <<stab, pendulum, ctl, plan, call>>

(***************************************************************************)
(* Arithmetic helpers                                                      *)
(***************************************************************************)
Abs(a) == IF a < 0 THEN -a ELSE a

Min(a, b) == IF a < b THEN a ELSE b

Max(a, b) == IF a > b THEN a ELSE b

\* Marker of a double that is not a finite number (x / 0.).
NaN == 1000000007

\* a / b on doubles, in fixed point: truncated towards zero.
Div(a, b) ==
  IF b = 0 \/ a = NaN \/ b = NaN THEN NaN
  ELSE IF (a >= 0) = (b > 0) THEN Abs(a) \div Abs(b)
  ELSE -(Abs(a) \div Abs(b))

\* utils/clamp.h: clamp(v, vMin, vMax)
clamp(v, vMin, vMax) == IF v > vMax THEN vMax ELSE IF v < vMin THEN vMin ELSE v

Vec(x, z) == [x |-> x, z |-> z]

VZero == Vec(0, 0)

VAdd(a, b) == Vec(a.x + b.x, a.z + b.z)

VSub(a, b) == Vec(a.x - b.x, a.z - b.z)

VScale(k, a) == Vec(k * a.x, k * a.z)

VDiv(a, k) == Vec(Div(a.x, k), Div(a.z, k))

\* y component of the cross product a x b of two vectors of the (x, z) plane
Cross(a, b) == a.z * b.x - a.x * b.z

\* sva::ForceVecd: couple (y component) and force
Wrench(couple, force) == [couple |-> couple, force |-> force]

WAdd(a, b) == Wrench(a.couple + b.couple, VAdd(a.force, b.force))

(***************************************************************************)
(* Program constants                                                       *)
(***************************************************************************)
\* Stabilizer.h safety ranges of the gains
MAX_COM_XY_ADMITTANCE == 20

MAX_COM_Z_ADMITTANCE == 10

MAX_COP_ADMITTANCE == 4

MIN_DCM_P_GAIN == 1

MAX_DCM_P_GAIN == 25

MAX_DCM_I_GAIN == 100

MAX_DFZ_ADMITTANCE == 5

\* Stabilizer.h saturation bounds of the integrators [length units]
MAX_AVERAGE_DCM_ERROR == 5

MAX_ZMPCC_COM_OFFSET == 6

MAX_ALTCC_COM_OFFSET == 7

\* Stabilizer.h minimum foot pressure in double support [force units]
MIN_DS_PRESSURE == 15

\* world::gravity = (0, 0, -GRAVITY)
GRAVITY == 900

gravity == Vec(0, -GRAVITY)

\* mass_ = controlRobot.mass()
MASS == 40

\* dt_ = 1 / DT_DEN time units (constructor argument dt)
DT_DEN == 4

\* tasks.contact.stiffness of the configuration
CONTACT_STIFFNESS == 1

(***************************************************************************)
(* Integrators (utils/LeakyIntegrator.h, utils/ExponentialMovingAverage.h) *)
(***************************************************************************)
saturate(v, saturation) ==
  Vec(clamp(v.x, -saturation, saturation), clamp(v.z, -saturation, saturation))

\* LeakyIntegrator::add(value, dt):
\*   integral_ = (1. - rate_ * dt) * integral_ + dt * value; saturate if saturation_ > 0
LeakyAdd(integ, value) ==
  LET raw == Vec(Div((DT_DEN - integ.rate) * integ.integral.x + value.x, DT_DEN),
                 Div((DT_DEN - integ.rate) * integ.integral.z + value.z, DT_DEN))
  IN [integ EXCEPT !.integral =
        IF integ.saturation > 0 THEN saturate(raw, integ.saturation) ELSE raw]

\* ExponentialMovingAverage::timeConstant(T): T = max(T, 2 dt),
\* alpha = 1 - exp(-dt / T), here 2 / (2 T + 1) with T counted in dt.
EmaTimeConstant(ema, T) == [ema EXCEPT !.timeConstant = Max(T, 2)]

\* ExponentialMovingAverage::append(value):
\*   average_ += alpha_ * (value - average_); saturate if saturation_ > 0
EmaAppend(ema, value) ==
  LET den == 2 * ema.timeConstant + 1
      raw == Vec(ema.average.x + Div(2 * (value.x - ema.average.x), den),
                 ema.average.z + Div(2 * (value.z - ema.average.z), den))
  IN [ema EXCEPT !.average =
        IF ema.saturation > 0 THEN saturate(raw, ema.saturation) ELSE raw]

(***************************************************************************)
(* Stabilizer (src/src/Stabilizer.cpp)                                     *)
(***************************************************************************)
ContactStates == {"DoubleSupport", "LeftFoot", "RightFoot"}

TemplateModels == {"LinearInvertedPendulum", "VariableHeightInvertedPendulum"}

\* Outcome of one leastSquares_.solve(): the boolean it returns and inform().
SolverOutcomes ==
  { [success |-> TRUE,  inform |-> "STRONG_MINIMUM"],
    [success |-> TRUE,  inform |-> "WEAK_MINIMUM"],
    [success |-> FALSE, inform |-> "INFEASIBLE"] }

\* Stabilizer::disable()
disable(s) ==
  [s EXCEPT !.comAdmittance = [x |-> 0, y |-> 0, z |-> 0],
            !.copAdmittance = [x |-> 0, y |-> 0],
            !.dcmGain = 0,
            !.dcmIntegralGain = 0,
            !.dfzAdmittance = 0,
            !.vdcFrequency = 0,
            !.vdcStiffness = 0]

\* Stabilizer::reconfigure(): every section is present in the configuration
\* the Controller hands over (etc/VHIPWalking.conf, Controller.cpp:114).
reconfigure(s) ==
  LET c == s.config IN
  [s EXCEPT !.comAdmittance = c.admittance.com,
            !.copAdmittance = c.admittance.cop,
            !.dfzAdmittance = c.admittance.dfz,
            !.dcmGain = c.dcm_feedback.gain,
            !.dcmIntegralGain = c.dcm_feedback.integral_gain,
            !.dcmIntegrator = EmaTimeConstant(@, c.dcm_feedback.integrator_time_constant),
            !.vdcDamping = c.vdc.damping,
            !.vdcFrequency = c.vdc.frequency,
            !.vdcStiffness = c.vdc.stiffness,
            !.altccIntegrator = [@ EXCEPT !.rate = c.altcc.integrator_leak_rate],
            !.zmpccIntegrator = [@ EXCEPT !.rate = c.zmpcc.integrator_leak_rate]]

\* Stabilizer::configure(config)
configure(s, config) == reconfigure([s EXCEPT !.config = config])

\* Stabilizer::contactAdmittance() (Stabilizer.h): {copAdmittance_.y, copAdmittance_.x, 0}
contactAdmittance(s) == s.copAdmittance

\* The integrators zeroed without their saturations being set
resetIntegrators_NoSaturation(s) ==
  [s EXCEPT !.dcmIntegrator = [@ EXCEPT !.average = VZero],
            !.altccIntegrator = [@ EXCEPT !.integral = VZero],
            !.zmpccIntegrator = [@ EXCEPT !.integral = VZero]]

\* The integrator part of Stabilizer::reset(): zero and set the saturations.
resetIntegrators(s) ==
  [s EXCEPT !.dcmIntegrator = [@ EXCEPT !.average = VZero,
                                        !.saturation = MAX_AVERAGE_DCM_ERROR],
            !.altccIntegrator = [@ EXCEPT !.integral = VZero,
                                          !.saturation = MAX_ALTCC_COM_OFFSET],
            !.zmpccIntegrator = [@ EXCEPT !.integral = VZero,
                                          !.saturation = MAX_ZMPCC_COM_OFFSET]]

\* A CoPTask after mc_tasks::force::CoPTask::reset() and setContact().
FootTask(s, contact) ==
  [admittance |-> contactAdmittance(s),
   stiffness |-> CONTACT_STIFFNESS,
   targetPose |-> contact,
   targetCoP |-> 0,
   targetForce |-> VZero,
   refVelB |-> 0]

\* Stabilizer::reset(robots): pen is the reference pendulum_, lc and rc the
\* surface poses of the feet.
reset(s, pen, lc, rc) ==
  LET staticForce == VScale(-MASS, gravity)
      r == resetIntegrators(s)
  IN [r EXCEPT !.leftFootTask = FootTask(s, lc),
               !.rightFootTask = FootTask(s, rc),
               !.leftFootContact = lc,
               !.rightFootContact = rc,
               !.comTask = [com |-> pen.com, refVel |-> VZero, refAccel |-> VZero],
               !.altccCoMAccel = VZero,
               !.altccCoMOffset = VZero,
               !.altccCoMVel = VZero,
               !.comOffset = VZero,
               !.dcmAverageError = VZero,
               !.dcmError = VZero,
               !.distribWrench = Wrench(Cross(pen.com, staticForce), staticForce),
               !.logMeasuredDFz = 0,
               !.logMeasuredSTz = 0,
               !.logTargetDFz = 0,
               !.logTargetSTz = 0,
               !.zmpccCoMAccel = VZero,
               !.zmpccCoMOffset = VZero,
               !.zmpccCoMVel = VZero,
               !.zmpccError = VZero]

\* The gain check without the lower bound of the DCM proportional gain
checkGains_NoMinimumGain(s) ==
  [s EXCEPT !.comAdmittance = [x |-> clamp(@.x, 0, MAX_COM_XY_ADMITTANCE),
                               y |-> clamp(@.y, 0, MAX_COM_XY_ADMITTANCE),
                               z |-> clamp(@.z, 0, MAX_COM_Z_ADMITTANCE)],
            !.copAdmittance = [x |-> clamp(@.x, 0, MAX_COP_ADMITTANCE),
                               y |-> clamp(@.y, 0, MAX_COP_ADMITTANCE)],
            !.dcmGain = clamp(@, 0, MAX_DCM_P_GAIN),
            !.dcmIntegralGain = clamp(@, 0, MAX_DCM_I_GAIN),
            !.dfzAdmittance = clamp(@, 0, MAX_DFZ_ADMITTANCE),
            !.steps = Append(@, "checkGains")]

\* Stabilizer::checkGains()
checkGains(s) ==
  [s EXCEPT !.comAdmittance = [x |-> clamp(@.x, 0, MAX_COM_XY_ADMITTANCE),
                               y |-> clamp(@.y, 0, MAX_COM_XY_ADMITTANCE),
                               z |-> clamp(@.z, 0, MAX_COM_Z_ADMITTANCE)],
            !.copAdmittance = [x |-> clamp(@.x, 0, MAX_COP_ADMITTANCE),
                               y |-> clamp(@.y, 0, MAX_COP_ADMITTANCE)],
            !.dcmGain = clamp(@, MIN_DCM_P_GAIN, MAX_DCM_P_GAIN),
            !.dcmIntegralGain = clamp(@, 0, MAX_DCM_I_GAIN),
            !.dfzAdmittance = clamp(@, 0, MAX_DFZ_ADMITTANCE),
            !.steps = Append(@, "checkGains")]

\* The in-the-air flag, once raised, stays raised
checkInTheAir_Latched(s, in) ==
  [s EXCEPT !.inTheAir = @ \/ (in.LFz < MIN_DS_PRESSURE /\ in.RFz < MIN_DS_PRESSURE),
            !.steps = Append(@, "checkInTheAir")]

\* Stabilizer::checkInTheAir(): in.LFz, in.RFz are the feet's measured forces
checkInTheAir(s, in) ==
  [s EXCEPT !.inTheAir = (in.LFz < MIN_DS_PRESSURE /\ in.RFz < MIN_DS_PRESSURE),
            !.steps = Append(@, "checkInTheAir")]

\* Stabilizer::updateSupportFootGains()
updateSupportFootGains(s) ==
  LET nominal(task) == [task EXCEPT !.admittance = contactAdmittance(s),
                                    !.stiffness = CONTACT_STIFFNESS]
      vdc(task) == [task EXCEPT !.admittance = contactAdmittance(s),
                                !.stiffness = s.vdcStiffness]
      t == [s EXCEPT !.steps = Append(@, "updateSupportFootGains")]
  IN CASE s.contactState = "DoubleSupport" ->
            [t EXCEPT !.leftFootTask = nominal(@), !.rightFootTask = nominal(@)]
       [] s.contactState = "LeftFoot" -> [t EXCEPT !.leftFootTask = vdc(@)]
       [] s.contactState = "RightFoot" -> [t EXCEPT !.rightFootTask = vdc(@)]

\* Stabilizer::computeZMP(wrench), with zmpFrame_ the frame `frame`
computeZMP(s, pen, frame, wrench) ==
  LET pressure == wrench.force.z IN
  IF pressure < 1
  THEN VAdd(s.measuredCoM, VDiv(gravity, pen.omega * pen.omega))
  ELSE LET moment_p == wrench.couple - Cross(frame, wrench.force)
       IN Vec(frame.x + Div(-moment_p, pressure), frame.z)

\* The ZMP area of double support as the half-spaces of both feet, stacked
updateZMPFrame_StackedDS(s, pen) ==
  LET lc == s.leftFootContact
      rc == s.rightFootContact
      frame == CASE s.contactState = "DoubleSupport" ->
                      Vec(Div(lc.x + rc.x, 2), Div(lc.z + rc.z, 2))
                 [] s.contactState = "LeftFoot" -> lc
                 [] OTHER -> rc
  IN [s EXCEPT !.zmpFrame = frame,
               !.zmpAreaRows = IF s.contactState = "DoubleSupport" THEN 8 ELSE 4,
               !.measuredZMP = computeZMP(s, pen, frame, s.measuredWrench),
               !.steps = Append(@, "updateZMPFrame")]

\* Stabilizer::updateZMPFrame(): the frame, the number of rows of zmpArea_
\* and the measured ZMP
updateZMPFrame(s, pen) ==
  LET lc == s.leftFootContact
      rc == s.rightFootContact
      frame == CASE s.contactState = "DoubleSupport" ->
                      Vec(Div(lc.x + rc.x, 2), Div(lc.z + rc.z, 2))
                 [] s.contactState = "LeftFoot" -> lc
                 [] OTHER -> rc
  IN [s EXCEPT !.zmpFrame = frame,
               !.zmpAreaRows = 4,
               !.measuredZMP = computeZMP(s, pen, frame, s.measuredWrench),
               !.steps = Append(@, "updateZMPFrame")]

\* The linear feedback law without the compensation of gravity
computeLIPDesiredWrench_NoGravity(s, pen) ==
  LET omega == pen.omega
      omega2 == omega * omega
      comError == VSub(pen.com, s.measuredCoM)
      comdError == VSub(pen.comd, s.measuredCoMd)
      dcmError == Vec(comError.x + Div(comdError.x, omega), 0)
      integ == IF ~s.inTheAir THEN EmaAppend(s.dcmIntegrator, dcmError)
               ELSE s.dcmIntegrator
      average == IF ~s.inTheAir THEN integ.average ELSE s.dcmAverageError
      desiredCoMAccel ==
        VAdd(VAdd(pen.comdd,
                  VAdd(VScale(s.dcmGain * omega2, dcmError), VScale(omega, comdError))),
             VScale(s.dcmIntegralGain * omega2, average))
      desiredForce == VScale(MASS, desiredCoMAccel)
  IN [s EXCEPT !.dcmError = dcmError,
               !.dcmIntegrator = integ,
               !.dcmAverageError = average,
               !.desiredWrench = Wrench(Cross(pen.com, desiredForce), desiredForce)]

\* Stabilizer::computeLIPDesiredWrench(); the wrench is left in desiredWrench
computeLIPDesiredWrench(s, pen) ==
  LET omega == pen.omega
      omega2 == omega * omega
      comError == VSub(pen.com, s.measuredCoM)
      comdError == VSub(pen.comd, s.measuredCoMd)
      dcmError == Vec(comError.x + Div(comdError.x, omega), 0)
      integ == IF ~s.inTheAir THEN EmaAppend(s.dcmIntegrator, dcmError)
               ELSE s.dcmIntegrator
      average == IF ~s.inTheAir THEN integ.average ELSE s.dcmAverageError
      desiredCoMAccel ==
        VAdd(VAdd(pen.comdd,
                  VAdd(VScale(s.dcmGain * omega2, dcmError), VScale(omega, comdError))),
             VScale(s.dcmIntegralGain * omega2, average))
      desiredForce == VScale(MASS, VSub(desiredCoMAccel, gravity))
  IN [s EXCEPT !.dcmError = dcmError,
               !.dcmIntegrator = integ,
               !.dcmAverageError = average,
               !.desiredWrench = Wrench(Cross(pen.com, desiredForce), desiredForce)]

\* The VHIP feedback law with the solver's report ignored: the result of a
\* failed QP is applied as if it had succeeded
computeVHIPDesiredWrench_IgnoreFailure(s, pen, in) ==
  LET vhipOmega == pen.omega + in.vhipDelta.omega
      vhipLambda == pen.omega * pen.omega + in.vhipDelta.lambda
      vhipZMP == Vec(pen.zmp.x + in.vhipDelta.zmp, pen.zmp.z)
      desiredForce == VScale(MASS * vhipLambda, VSub(pen.com, vhipZMP))
      t == IF in.vhip.success THEN s
           ELSE [s EXCEPT !.log = Append(@, "VHIP feedback QP failed to run")]
  IN [t EXCEPT !.vhipOmega = vhipOmega,
               !.vhipLambda = vhipLambda,
               !.vhipDCM = VAdd(s.measuredCoM, VDiv(s.measuredCoMd, vhipOmega)),
               !.vhipZMP = vhipZMP,
               !.desiredWrench = Wrench(Cross(vhipZMP, desiredForce), desiredForce)]

\* Stabilizer::computeVHIPDesiredWrench(): in.vhip is the outcome of the
\* feedback QP and in.vhipDelta its result (Delta_omega, Delta_lambda, Delta_zmp)
computeVHIPDesiredWrench(s, pen, in) ==
  LET refOmega == pen.omega
      refLambda == refOmega * refOmega
      nbConstraints == 3 + 3 + 1 + s.zmpAreaRows + 1
      curRow == 3 + 3 + 1 + s.zmpAreaRows + 1
      t == IF curRow # nbConstraints
           THEN [s EXCEPT !.log = Append(@, "Invalid number of constraints in VHIP feedback QP")]
           ELSE s
  IN IF ~in.vhip.success
     THEN computeLIPDesiredWrench(
            [t EXCEPT !.log = Append(@, "VHIP feedback QP failed to run")], pen)
     ELSE LET vhipOmega == refOmega + in.vhipDelta.omega
              vhipLambda == refLambda + in.vhipDelta.lambda
              vhipZMP == Vec(pen.zmp.x + in.vhipDelta.zmp, pen.zmp.z)
              desiredForce == VScale(MASS * vhipLambda, VSub(pen.com, vhipZMP))
          IN [t EXCEPT !.vhipOmega = vhipOmega,
                       !.vhipLambda = vhipLambda,
                       !.vhipDCM = VAdd(s.measuredCoM, VDiv(s.measuredCoMd, vhipOmega)),
                       !.vhipZMP = vhipZMP,
                       !.desiredWrench = Wrench(Cross(vhipZMP, desiredForce), desiredForce)]

\* Stabilizer::computeDesiredWrench()
computeDesiredWrench(s, pen, in) ==
  LET t == [s EXCEPT !.steps = Append(@, "computeDesiredWrench")] IN
  IF s.model = "LinearInvertedPendulum"
  THEN computeLIPDesiredWrench(t, pen)
  ELSE computeVHIPDesiredWrench(t, pen, in)

\* sva::PTransformd::dualMul for an unrotated frame at `pose`: the wrench
\* expressed in that frame
dualMul(pose, w) == Wrench(w.couple - Cross(pose, w.force), w.force)

\* (e_z.cross(w.couple()) / w.force()(2)).head<2>(), x component
CoP(w) == Div(-w.couple, w.force.z)

\* The double-support distribution with the solver's report ignored: the
\* result of a failed QP is written to distribWrench_ and the foot tasks
distributeWrenchDS_WriteOnFailure(s, in) ==
  LET w_l_lc == dualMul(s.leftFootContact, in.dsResult.l)
      w_r_rc == dualMul(s.rightFootContact, in.dsResult.r)
      t == IF in.fdqp.success THEN s
           ELSE [s EXCEPT !.log = Append(@, "DS force distribution QP failed to run")]
  IN [t EXCEPT !.distribWrench = WAdd(in.dsResult.l, in.dsResult.r),
               !.leftFootTask = [@ EXCEPT !.targetCoP = CoP(w_l_lc),
                                          !.targetForce = w_l_lc.force],
               !.rightFootTask = [@ EXCEPT !.targetCoP = CoP(w_r_rc),
                                           !.targetForce = w_r_rc.force]]

\* Stabilizer::distributeWrenchDS(desiredWrench): in.fdqp is the outcome of
\* the QP, in.dsResult its result x = [w_l_0 w_r_0]
distributeWrenchDS(s, in) ==
  IF ~in.fdqp.success
  THEN [s EXCEPT !.log = Append(@, "DS force distribution QP failed to run")]
  ELSE LET w_l_0 == in.dsResult.l
           w_r_0 == in.dsResult.r
           w_l_lc == dualMul(s.leftFootContact, w_l_0)
           w_r_rc == dualMul(s.rightFootContact, w_r_0)
       IN [s EXCEPT !.distribWrench = WAdd(w_l_0, w_r_0),
                    !.leftFootTask = [@ EXCEPT !.targetCoP = CoP(w_l_lc),
                                               !.targetForce = w_l_lc.force],
                    !.rightFootTask = [@ EXCEPT !.targetCoP = CoP(w_r_rc),
                                                !.targetForce = w_r_rc.force]]

\* Stabilizer::distributeWrenchSS(desiredWrench, footTask) on the task
\* `task`: in.fdqp is the outcome of the QP, in.ssResult its result x = [w_0].
\* Yields the task and distribWrench_.
distributeWrenchSS(task, distribWrench, in) ==
  IF in.fdqp.inform # "STRONG_MINIMUM"
  THEN [task |-> task, distribWrench |-> distribWrench, failed |-> TRUE]
  ELSE LET w_0 == in.ssResult
           w_c == dualMul(task.targetPose, w_0)
       IN [task |-> [task EXCEPT !.targetCoP = CoP(w_c), !.targetForce = w_c.force],
           distribWrench |-> w_0,
           failed |-> FALSE]

\* mc_tasks::force::CoPTask::setZeroTargetWrench()
setZeroTargetWrench(task) == [task EXCEPT !.targetCoP = 0, !.targetForce = VZero]

\* Stabilizer::distributeWrench(desiredWrench)
distributeWrench(s, in) ==
  LET t == [s EXCEPT !.steps = Append(@, "distributeWrench"),
                     !.distributed = s.desiredWrench]
      ssLog(r, u) == IF r.failed
                     THEN [u EXCEPT !.log = Append(@, "SS force distribution QP failed to run")]
                     ELSE u
  IN CASE s.contactState = "DoubleSupport" -> distributeWrenchDS(t, in)
       [] s.contactState = "LeftFoot" ->
            LET r == distributeWrenchSS(s.leftFootTask, s.distribWrench, in)
            IN ssLog(r, [t EXCEPT !.leftFootTask = r.task,
                                  !.distribWrench = r.distribWrench,
                                  !.rightFootTask = setZeroTargetWrench(@)])
       [] s.contactState = "RightFoot" ->
            LET r == distributeWrenchSS(s.rightFootTask, s.distribWrench, in)
            IN ssLog(r, [t EXCEPT !.rightFootTask = r.task,
                                  !.distribWrench = r.distribWrench,
                                  !.leftFootTask = setZeroTargetWrench(@)])

\* The ZMP compensation that disregards the only-in-double-support option
updateCoMZMPCC_AlwaysActive(s, pen) ==
  LET distribZMP == computeZMP(s, pen, s.zmpFrame, s.distribWrench)
      zmpccError == VSub(distribZMP, s.measuredZMP)
      t == [s EXCEPT !.zmpccError = zmpccError]
      newVel == Vec(-(s.comAdmittance.x * zmpccError.x), 0)
      newAccel == VScale(DT_DEN, VSub(newVel, s.zmpccCoMVel))
      integ == LeakyAdd(s.zmpccIntegrator, newVel)
  IN [t EXCEPT !.zmpccIntegrator = integ,
               !.zmpccCoMAccel = newAccel,
               !.zmpccCoMVel = newVel,
               !.zmpccCoMOffset = integ.integral]

\* Stabilizer::updateCoMZMPCC()
updateCoMZMPCC(s, pen) ==
  LET distribZMP == computeZMP(s, pen, s.zmpFrame, s.distribWrench)
      zmpccError == VSub(distribZMP, s.measuredZMP)
      t == [s EXCEPT !.zmpccError = zmpccError]
  IN IF s.zmpccOnlyDS /\ s.contactState # "DoubleSupport"
     THEN LET integ == LeakyAdd(s.zmpccIntegrator, VZero)
          IN [t EXCEPT !.zmpccIntegrator = integ,
                       !.zmpccCoMAccel = VZero,
                       !.zmpccCoMVel = VZero,
                       !.zmpccCoMOffset = integ.integral]
     ELSE LET newVel == Vec(-(s.comAdmittance.x * zmpccError.x), 0)
              newAccel == VScale(DT_DEN, VSub(newVel, s.zmpccCoMVel))
              integ == LeakyAdd(s.zmpccIntegrator, newVel)
          IN [t EXCEPT !.zmpccIntegrator = integ,
                       !.zmpccCoMAccel = newAccel,
                       !.zmpccCoMVel = newVel,
                       !.zmpccCoMOffset = integ.integral]

\* The altitude compensation that disregards the template model
updateCoMAltitude_AlwaysActive(s, pen) ==
  LET measuredHeight == s.measuredCoM.z - s.zmpFrame.z
      pendulumHeight == pen.com.z - s.zmpFrame.z
      distribLambda == Div(s.distribWrench.force.z, MASS * pendulumHeight)
      measuredLambda == Div(s.measuredWrench.force.z, MASS * measuredHeight)
      t == [s EXCEPT !.distribLambda = distribLambda, !.measuredLambda = measuredLambda]
      zd == s.comAdmittance.z * (distribLambda - measuredLambda)
      newVel == Vec(0, zd)
      newAccel == VScale(DT_DEN, VSub(newVel, s.altccCoMVel))
      integ == LeakyAdd(s.altccIntegrator, newVel)
  IN [t EXCEPT !.altccIntegrator = integ,
               !.altccCoMAccel = newAccel,
               !.altccCoMVel = newVel,
               !.altccCoMOffset = integ.integral]

\* Stabilizer::updateCoMAltitude(); the measured vertical is the world's
updateCoMAltitude(s, pen) ==
  LET measuredHeight == s.measuredCoM.z - s.zmpFrame.z
      pendulumHeight == pen.com.z - s.zmpFrame.z
      distribLambda == Div(s.distribWrench.force.z, MASS * pendulumHeight)
      measuredLambda == Div(s.measuredWrench.force.z, MASS * measuredHeight)
      t == [s EXCEPT !.distribLambda = distribLambda, !.measuredLambda = measuredLambda]
  IN IF s.model = "LinearInvertedPendulum"
     THEN LET integ == LeakyAdd(s.altccIntegrator, VZero)
          IN [t EXCEPT !.altccIntegrator = integ,
                       !.altccCoMAccel = VZero,
                       !.altccCoMVel = VZero,
                       !.altccCoMOffset = integ.integral]
     ELSE LET zd == s.comAdmittance.z * (distribLambda - measuredLambda)
              newVel == Vec(0, zd)
              newAccel == VScale(DT_DEN, VSub(newVel, s.altccCoMVel))
              integ == LeakyAdd(s.altccIntegrator, newVel)
          IN [t EXCEPT !.altccIntegrator = integ,
                       !.altccCoMAccel = newAccel,
                       !.altccCoMVel = newVel,
                       !.altccCoMOffset = integ.integral]

\* Stabilizer::updateCoMAdmittanceControl()
updateCoMAdmittanceControl(s, pen) ==
  LET t == updateCoMAltitude(updateCoMZMPCC(s, pen), pen)
      comOffset == VAdd(t.zmpccCoMOffset, t.altccCoMOffset)
  IN [t EXCEPT !.comOffset = comOffset,
               !.comTask = [com |-> VAdd(pen.com, comOffset),
                            refVel |-> VAdd(pen.comd, VAdd(t.zmpccCoMVel, t.altccCoMVel)),
                            refAccel |-> VAdd(pen.comdd, VAdd(t.zmpccCoMAccel, t.altccCoMAccel))],
               !.steps = Append(@, "updateCoMAdmittanceControl")]

\* The foot force difference control that leaves the references and the
\* diagnostics as they are outside double support and in the air
updateFootForceDifferenceControl_HoldOutsideDS(s, in) ==
  LET t == [s EXCEPT !.steps = Append(@, "updateFootForceDifferenceControl")] IN
  IF s.contactState = "DoubleSupport" /\ ~s.inTheAir
  THEN LET LFz_d == s.leftFootTask.targetForce.z
           RFz_d == s.rightFootTask.targetForce.z
           vfcZCtrl == in.RTz - in.LTz
           dz_ctrl == s.dfzAdmittance * ((LFz_d - RFz_d) - (in.LFz - in.RFz))
                        - s.vdcDamping * vfcZCtrl
           LTz_d == s.leftFootTask.targetPose.z
           RTz_d == s.rightFootTask.targetPose.z
           dz_pos == s.vdcFrequency * ((LTz_d + RTz_d) - (in.LTz + in.RTz))
       IN [t EXCEPT !.vfcZCtrl = vfcZCtrl,
                    !.vdcZPos = in.RTz + in.LTz,
                    !.leftFootTask = [@ EXCEPT !.refVelB = Div(dz_pos - dz_ctrl, 2)],
                    !.rightFootTask = [@ EXCEPT !.refVelB = Div(dz_pos + dz_ctrl, 2)],
                    !.logMeasuredDFz = in.LFz - in.RFz,
                    !.logMeasuredSTz = in.LTz + in.RTz,
                    !.logTargetDFz = LFz_d - RFz_d,
                    !.logTargetSTz = LTz_d + RTz_d]
  ELSE t

\* Stabilizer::updateFootForceDifferenceControl(): in.LTz, in.RTz are the
\* heights of the feet's surface poses
updateFootForceDifferenceControl(s, in) ==
  LET t == [s EXCEPT !.steps = Append(@, "updateFootForceDifferenceControl")] IN
  IF s.contactState = "DoubleSupport" /\ ~s.inTheAir
  THEN LET LFz_d == s.leftFootTask.targetForce.z
           RFz_d == s.rightFootTask.targetForce.z
           vfcZCtrl == in.RTz - in.LTz
           dz_ctrl == s.dfzAdmittance * ((LFz_d - RFz_d) - (in.LFz - in.RFz))
                        - s.vdcDamping * vfcZCtrl
           LTz_d == s.leftFootTask.targetPose.z
           RTz_d == s.rightFootTask.targetPose.z
           dz_pos == s.vdcFrequency * ((LTz_d + RTz_d) - (in.LTz + in.RTz))
       IN [t EXCEPT !.vfcZCtrl = vfcZCtrl,
                    !.vdcZPos = in.RTz + in.LTz,
                    !.leftFootTask = [@ EXCEPT !.refVelB = Div(dz_pos - dz_ctrl, 2)],
                    !.rightFootTask = [@ EXCEPT !.refVelB = Div(dz_pos + dz_ctrl, 2)],
                    !.logMeasuredDFz = in.LFz - in.RFz,
                    !.logMeasuredSTz = in.LTz + in.RTz,
                    !.logTargetDFz = LFz_d - RFz_d,
                    !.logTargetSTz = LTz_d + RTz_d]
  ELSE [t EXCEPT !.leftFootTask = [@ EXCEPT !.refVelB = 0],
                 !.rightFootTask = [@ EXCEPT !.refVelB = 0],
                 !.logMeasuredDFz = 0,
                 !.logMeasuredSTz = 0,
                 !.logTargetDFz = 0,
                 !.logTargetSTz = 0,
                 !.vdcZPos = 0,
                 !.vfcZCtrl = 0]

\* The cycle with the desired wrench computed first, from the gains,
\* the in-the-air flag and the ZMP frame the previous cycle left
run_WrenchFirst(s, pen, in) ==
  LET s0 == [s EXCEPT !.steps = <<>>, !.log = <<>>]
      s1 == computeDesiredWrench(s0, pen, in)
      s2 == checkGains(s1)
      s3 == checkInTheAir(s2, in)
      s4 == updateSupportFootGains(s3)
      s5 == updateZMPFrame(s4, pen)
      s6 == distributeWrench(s5, in)
      s7 == updateCoMAdmittanceControl(s6, pen)
  IN updateFootForceDifferenceControl(s7, in)

\* Stabilizer::run(): steps and log hold the steps taken and the errors
\* logged by this cycle.
run(s, pen, in) ==
  LET s0 == [s EXCEPT !.steps = <<>>, !.log = <<>>]
      s1 == checkGains(s0)
      s2 == checkInTheAir(s1, in)
      s3 == updateSupportFootGains(s2)
      s4 == updateZMPFrame(s3, pen)
      s5 == computeDesiredWrench(s4, pen, in)
      s6 == distributeWrench(s5, in)
      s7 == updateCoMAdmittanceControl(s6, pen)
  IN updateFootForceDifferenceControl(s7, in)

\* The next statement of Stabilizer::run(): steps holds the statements of
\* the cycle taken so far, and a cycle completed is followed by a new one
runStep(s, pen, in) ==
  LET k == Len(s.steps) IN
  CASE k = 0 \/ k = 8 -> checkGains([s EXCEPT !.steps = <<>>, !.log = <<>>])
    [] k = 1 -> checkInTheAir(s, in)
    [] k = 2 -> updateSupportFootGains(s)
    [] k = 3 -> updateZMPFrame(s, pen)
    [] k = 4 -> computeDesiredWrench(s, pen, in)
    [] k = 5 -> distributeWrench(s, in)
    [] k = 6 -> updateCoMAdmittanceControl(s, pen)
    [] k = 7 -> updateFootForceDifferenceControl(s, in)

\* Stabilizer::updateState(com, comd, wrench, leftFootRatio) (Stabilizer.h)
updateState(s, com, comd, wrench, leftFootRatio) ==
  [s EXCEPT !.measuredCoM = com,
            !.measuredCoMd = comd,
            !.measuredWrench = wrench,
            !.leftFootRatio = leftFootRatio]

(***************************************************************************)
(* Inputs: configurations, measurements, references and solver results     *)
(***************************************************************************)
\* The stabilizer section of the configuration: the shipped values
\* (etc/VHIPWalking.conf.cmake) in model units, and one that is out of range
\* in every gain.
Configs ==
  { [admittance |-> [com |-> [x |-> 0, y |-> 0, z |-> 7],
                     cop |-> [x |-> 1, y |-> 1],
                     dfz |-> 1],
     dcm_feedback |-> [gain |-> 2, integral_gain |-> 1, integrator_time_constant |-> 2],
     vdc |-> [frequency |-> 1, damping |-> 0, stiffness |-> 1000],
     altcc |-> [integrator_leak_rate |-> 1],
     zmpcc |-> [integrator_leak_rate |-> 1]],
    [admittance |-> [com |-> [x |-> 30, y |-> -1, z |-> 11],
                     cop |-> [x |-> 5, y |-> -2],
                     dfz |-> 6],
     dcm_feedback |-> [gain |-> 0, integral_gain |-> 101, integrator_time_constant |-> 1],
     vdc |-> [frequency |-> 11, damping |-> 101, stiffness |-> 10001],
     altcc |-> [integrator_leak_rate |-> 6],
     zmpcc |-> [integrator_leak_rate |-> 9]] }

\* Pendulum: the reference CoM state, standing still or moving forward
\* (zmp = com - comdd / omega^2 on flat ground).
Pendulums ==
  { [com |-> Vec(0, 100), comd |-> VZero, comdd |-> VZero, omega |-> 3, zmp |-> VZero],
    [com |-> Vec(2, 100), comd |-> Vec(3, 0), comdd |-> Vec(9, 0), omega |-> 3,
     zmp |-> Vec(1, 0)] }

staticWrench == Wrench(0, VScale(-MASS, gravity))

\* What updateState() receives: measured CoM, its velocity, the net wrench
\* and the left foot ratio (in percent).
Measurements ==
  { [com |-> Vec(0, 100), comd |-> VZero, wrench |-> staticWrench, lfr |-> 50],
    [com |-> Vec(-9, 100), comd |-> Vec(-3, 0), wrench |-> staticWrench, lfr |-> 50],
    [com |-> Vec(9, 110), comd |-> Vec(3, 0),
     wrench |-> Wrench(-72000, Vec(0, 44000)), lfr |-> 100],
    [com |-> Vec(0, 100), comd |-> VZero, wrench |-> Wrench(0, VZero), lfr |-> 0] }

\* Measured vertical forces of the left and right foot
FootForces == { <<0, 0>>, <<10, 300>>, <<180, 180>> }

\* Heights of the left and right foot surfaces
FootHeights == { <<0, 0>>, <<0, 2>> }

\* Results of the VHIP feedback QP
VHIPNominal == [omega |-> 0, lambda |-> 0, zmp |-> 0]

VHIPShifted == [omega |-> 1, lambda |-> 7, zmp |-> -1]

VHIPResults == { VHIPNominal, VHIPShifted }

\* Results of the double-support distribution QP: left and right wrenches
DSNominal == [l |-> Wrench(0, Vec(0, 18000)), r |-> Wrench(0, Vec(0, 18000))]

DSShifted ==
  [l |-> Wrench(-3000, Vec(100, 30000)), r |-> Wrench(1000, Vec(-40, 6000))]

DSResults == { DSNominal, DSShifted }

\* Results of the single-support distribution QP
SSNominal == Wrench(0, Vec(0, 36000))

SSShifted == Wrench(-36000, Vec(90, 30000))

SSResults == { SSNominal, SSShifted }

StrongMinimum == [success |-> TRUE, inform |-> "STRONG_MINIMUM"]

FeetOnGround == <<180, 180>>

FeetLevel == <<0, 0>>

\* The inputs one run() cycle reads in state s, drawn from the given sets
\* of foot forces, foot heights, VHIP QP outcomes and results, distribution
\* QP outcomes and results.  An input the cycle does not read (the VHIP QP
\* under the linear model, the result of a failed QP, the other contact
\* state's QP, the foot heights outside double support) is held at its
\* nominal value.
RunInputsOf(s, FF, FH, VO, VR, FO, DR, SR) ==
  LET vhipRead == s.model = "VariableHeightInvertedPendulum"
      ds == s.contactState = "DoubleSupport"
  IN { in \in [LFz : {f[1] : f \in FF}, RFz : {f[2] : f \in FF},
               LTz : {h[1] : h \in FH \cup {FeetLevel}},
               RTz : {h[2] : h \in FH \cup {FeetLevel}},
               vhip : (IF vhipRead THEN VO ELSE {StrongMinimum}),
               vhipDelta : VR \cup {VHIPNominal},
               fdqp : FO,
               dsResult : (IF ds THEN DR \cup {DSNominal} ELSE {DSNominal}),
               ssResult : (IF ds THEN {SSNominal} ELSE SR \cup {SSNominal})] :
         /\ <<in.LFz, in.RFz>> \in FF
         /\ <<in.LTz, in.RTz>> \in (IF ds THEN FH ELSE {FeetLevel})
         /\ in.vhipDelta \in (IF vhipRead /\ in.vhip.success THEN VR ELSE {VHIPNominal})
         /\ in.dsResult \in (IF ds /\ in.fdqp.success THEN DR ELSE {DSNominal})
         /\ in.ssResult \in (IF ~ds /\ in.fdqp.inform = "STRONG_MINIMUM"
                             THEN SR ELSE {SSNominal}) }

\* Every input of a cycle
RunInputs(s) ==
  RunInputsOf(s, FootForces, FootHeights, SolverOutcomes, VHIPResults,
              SolverOutcomes, DSResults, SSResults)

\* Poses of the left and right foot contacts
leftPose == Vec(0, 0)

rightPose == Vec(20, 0)

\* The Stabilizer after its constructor, configure(config) and reset(): the
\* measured state is not initialised by either and is any measurement m.
StabilizerInit(config, pen, m) ==
  LET s0 == [config |-> config,
             comAdmittance |-> [x |-> 0, y |-> 0, z |-> 0],
             copAdmittance |-> [x |-> 0, y |-> 0],
             dcmGain |-> 0, dcmIntegralGain |-> 0, dfzAdmittance |-> 0,
             vdcDamping |-> 0, vdcFrequency |-> 0, vdcStiffness |-> 0,
             dcmIntegrator |-> [average |-> VZero, timeConstant |-> 5, saturation |-> -1],
             altccIntegrator |-> [integral |-> VZero, rate |-> 1, saturation |-> -1],
             zmpccIntegrator |-> [integral |-> VZero, rate |-> 1, saturation |-> -1],
             model |-> "VariableHeightInvertedPendulum",
             zmpccOnlyDS |-> TRUE,
             contactState |-> "DoubleSupport",
             inTheAir |-> FALSE,
             measuredCoM |-> m.com, measuredCoMd |-> m.comd,
             measuredWrench |-> m.wrench, leftFootRatio |-> m.lfr,
             leftFootContact |-> leftPose, rightFootContact |-> rightPose,
             leftFootTask |-> [admittance |-> [x |-> 0, y |-> 0], stiffness |-> 0,
                               targetPose |-> leftPose, targetCoP |-> 0,
                               targetForce |-> VZero, refVelB |-> 0],
             rightFootTask |-> [admittance |-> [x |-> 0, y |-> 0], stiffness |-> 0,
                                targetPose |-> rightPose, targetCoP |-> 0,
                                targetForce |-> VZero, refVelB |-> 0],
             comTask |-> [com |-> VZero, refVel |-> VZero, refAccel |-> VZero],
             zmpFrame |-> VZero, zmpAreaRows |-> 0, measuredZMP |-> VZero,
             dcmError |-> VZero, dcmAverageError |-> VZero,
             desiredWrench |-> Wrench(0, VZero), distributed |-> Wrench(0, VZero),
             distribWrench |-> Wrench(0, VZero),
             vhipOmega |-> 0, vhipLambda |-> 0, vhipZMP |-> VZero, vhipDCM |-> VZero,
             zmpccError |-> VZero, zmpccCoMOffset |-> VZero, zmpccCoMVel |-> VZero,
             zmpccCoMAccel |-> VZero,
             altccCoMOffset |-> VZero, altccCoMVel |-> VZero, altccCoMAccel |-> VZero,
             comOffset |-> VZero, distribLambda |-> 0, measuredLambda |-> 0,
             logMeasuredDFz |-> 0, logMeasuredSTz |-> 0,
             logTargetDFz |-> 0, logTargetSTz |-> 0,
             vdcZPos |-> 0, vfcZCtrl |-> 0,
             steps |-> <<>>, log |-> <<>>]
  IN reset(configure(s0, config), pen, leftPose, rightPose)

(***************************************************************************)
(* Stabilizer operations as actions                                        *)
(***************************************************************************)
\* Values an operator types into a GUI input, outside and inside the ranges
GuiTriples == { <<-1, 30, 11>> }

GuiPairs == { <<26, -1>>, <<3, 2>> }

GuiRates == { -1, 0, 6 }

GuiTimeConstants == { 1, 3 }

\* One stabilizer cycle with inputs from Ins
StabRunOn(Ins) ==
  \E in \in Ins :
    /\ stab' = run(stab, pendulum, in)
    /\ call' = [op |-> "Stabilizer::run", in |-> in, ret |-> TRUE, calls |-> <<>>,
                failedSolves |-> call.failedSolves]
    /\ UNCHANGED <<pendulum, ctl, plan>>

\* One statement of a stabilizer cycle, for the executions in which the GUI
\* callbacks are not held back until the cycle has returned
StabRunStepOn(Ins) ==
  \E in \in Ins :
    /\ stab' = runStep(stab, pendulum, in)
    /\ call' = [op |-> "Stabilizer::run statement", in |-> in, ret |-> TRUE,
                calls |-> <<>>, failedSolves |-> call.failedSolves]
    /\ UNCHANGED <<pendulum, ctl, plan>>

\* An operation of the stabilizer that takes no cycle inputs
StabOp(name, s) ==
  /\ stab' = s
  /\ call' = [op |-> name, in |-> <<>>, ret |-> TRUE, calls |-> <<>>,
              failedSolves |-> call.failedSolves]
  /\ UNCHANGED <<pendulum, ctl, plan>>

\* Stabilizer::updateState() with a new measurement from Ms
StabUpdateStateOn(Ms) ==
  \E m \in Ms :
    StabOp("Stabilizer::updateState", updateState(stab, m.com, m.comd, m.wrench, m.lfr))

\* Stabilizer::contactState(state) (Stabilizer.h), called by the FSM states
StabContactState ==
  \E cs \in ContactStates :
    StabOp("Stabilizer::contactState", [stab EXCEPT !.contactState = cs])

\* GUI button "Disable"
GuiDisable == StabOp("Disable", disable(stab))

\* GUI button "Reconfigure"
GuiReconfigure == StabOp("Reconfigure", reconfigure(stab))

\* GUI input "Foot admittance"
GuiFootAdmittance ==
  \E a \in GuiTriples :
    StabOp("Foot admittance",
      [stab EXCEPT !.copAdmittance = [x |-> clamp(a[1], 0, MAX_COP_ADMITTANCE),
                                      y |-> clamp(a[2], 0, MAX_COP_ADMITTANCE)],
                   !.dfzAdmittance = clamp(a[3], 0, MAX_DFZ_ADMITTANCE)])

\* GUI input "DCM feedback"
GuiDCMFeedback ==
  \E gains \in GuiPairs :
    StabOp("DCM feedback",
      [stab EXCEPT !.dcmGain = clamp(gains[1], MIN_DCM_P_GAIN, MAX_DCM_P_GAIN),
                   !.dcmIntegralGain = clamp(gains[2], 0, MAX_DCM_I_GAIN)])

\* GUI input "CoM admittance"
GuiCoMAdmittance ==
  \E a \in GuiTriples :
    StabOp("CoM admittance",
      [stab EXCEPT !.comAdmittance = [x |-> clamp(a[1], 0, MAX_COM_XY_ADMITTANCE),
                                      y |-> clamp(a[2], 0, MAX_COM_XY_ADMITTANCE),
                                      z |-> clamp(a[3], 0, MAX_COM_Z_ADMITTANCE)]])

\* GUI buttons "Reset DCM / ZMPCC / Altitude integrator"
GuiResetIntegrator ==
  \/ StabOp("Reset DCM integrator",
            [stab EXCEPT !.dcmIntegrator = [@ EXCEPT !.average = VZero]])
  \/ StabOp("Reset ZMPCC integrator",
            [stab EXCEPT !.zmpccIntegrator = [@ EXCEPT !.integral = VZero]])
  \/ StabOp("Reset Altitude integrator",
            [stab EXCEPT !.altccIntegrator = [@ EXCEPT !.integral = VZero]])

\* GUI input "DCM integrator T"
GuiDCMIntegratorT ==
  \E T \in GuiTimeConstants :
    StabOp("DCM integrator T",
           [stab EXCEPT !.dcmIntegrator = EmaTimeConstant(@, T)])

\* GUI input "ZMPCC leak rate [Hz]"
GuiZMPCCLeakRate ==
  \E T \in GuiRates :
    StabOp("ZMPCC leak rate", [stab EXCEPT !.zmpccIntegrator = [@ EXCEPT !.rate = T]])

\* GUI input "Altitude CC leak rate [Hz]"
GuiAltCCLeakRate ==
  \E T \in GuiRates :
    StabOp("Altitude CC leak rate", [stab EXCEPT !.altccIntegrator = [@ EXCEPT !.rate = T]])

\* GUI input "Template model"
GuiTemplateModel ==
  \E m \in TemplateModels : StabOp("Template model", [stab EXCEPT !.model = m])

\* GUI checkbox "Use ZMPCC only in double support?"
GuiZmpccOnlyDS == StabOp("Use ZMPCC only in double support?",
                         [stab EXCEPT !.zmpccOnlyDS = ~@])

\* The reference pendulum moves (preview integration by the FSM states)
PendulumUpdate ==
  \E p \in Pendulums :
    /\ pendulum' = p
    /\ call' = [op |-> "Pendulum", in |-> <<>>, ret |-> TRUE, calls |-> <<>>,
                failedSolves |-> call.failedSolves]
    /\ UNCHANGED <<stab, ctl, plan>>

(***************************************************************************)
(* FootstepPlan (FootstepPlan.h): the contacts and the cursor on them      *)
(***************************************************************************)
\* Plans have 2 to MaxContacts contacts
MaxContacts == 5

\* Heights of the contacts of a plan in its own frame: flat ground or stairs
ContactHeights == {0, 3}

\* Highest contact the model follows
MaxHeight == 6

\* The plans of the configuration (plans_), each by the heights of its contacts
PlanNames ==
  UNION { [1..n -> ContactHeights] : n \in 2..MaxContacts }

\* FootstepPlan::load(), complete() and updateInitialTransform(): contact i
\* of the plan gets id i, and the plan is moved to the height initHeight
planContacts(name, initHeight) ==
  [i \in 1..Len(name) |-> [id |-> i - 1, z |-> name[i] + initHeight]]

\* FootstepPlan::goToNextFootstep(); contacts_[i] is p.contacts[i + 1]
goToNextFootstep(p) ==
  LET nbContacts == Len(p.contacts)
      prevContact == p.supportContact
      supportContact == p.targetContact
      targetFootstep == p.nextFootstep
      nextFootstep == p.nextFootstep + 1
  IN [p EXCEPT !.prevContact = prevContact,
               !.supportContact = supportContact,
               !.nextFootstep = nextFootstep,
               !.targetContact = IF targetFootstep < nbContacts
                                 THEN p.contacts[targetFootstep + 1] ELSE prevContact,
               !.nextContact = IF nextFootstep < nbContacts
                               THEN p.contacts[nextFootstep + 1] ELSE supportContact]

\* FootstepPlan::reset(startIndex)
planReset(p, startIndex) ==
  goToNextFootstep(
    [p EXCEPT !.nextFootstep = startIndex + 1,
              !.supportContact = p.contacts[(IF startIndex > 0 THEN startIndex - 1 ELSE 0) + 1],
              !.targetContact = p.contacts[startIndex + 1]])

\* FootstepPlan::rewind()
rewind(p) == [planReset(p, 0) EXCEPT !.advances = 0]

\* Controller::supportContact(), targetContact(), nextContact(), prevContact()
supportContact(p) == p.supportContact

\* The target taken to be the plan's previous contact
targetContact_Prev(p) == p.prevContact

targetContact(p) == p.targetContact

nextContact(p) == p.nextContact

prevContact(p) == p.prevContact

\* The last-step test with the target compared with the next contact
isLastDSP_TargetNext(p) == targetContact(p).id > nextContact(p).id

\* Controller::isLastDSP(): true after the last step
isLastDSP(p) == supportContact(p).id > targetContact(p).id

\* Controller::isLastSSP(): true during the last step
isLastSSP(p) == targetContact(p).id > nextContact(p).id

\* Plans of the configuration that FootstepPlan::load() rejects: those with
\* fewer than two contacts
ShortPlanNames == UNION { [1..n -> ContactHeights] : n \in 0..1 }

\* FootstepPlan::load() accepts the plan: it has two contacts at least
validPlan(name) == Len(name) >= 2

\* The load that names the plan before reading it from the configuration
loadFootstepPlan_NameFirst(p, name) ==
  LET initHeight == IF Len(p.name) > 0 THEN p.supportContact.z ELSE 0
      contacts == planContacts(name, initHeight)
  IN IF ~validPlan(name) THEN [p EXCEPT !.name = name] ELSE
     rewind([name |-> name,
             contacts |-> contacts,
             nextFootstep |-> 0,
             supportContact |-> contacts[1],
             targetContact |-> contacts[1],
             nextContact |-> contacts[1],
             prevContact |-> contacts[1],
             advances |-> 0])

\* Controller::loadFootstepPlan(name): the plan is replaced by plans_(name),
\* moved to the height of the support contact of the plan it replaces, and
\* rewound.  advances counts the goToNextFootstep() calls since.  A plan
\* that FootstepPlan::load() rejects never reaches the assignment: the
\* exception leaves the function, and the plan is the one before.
loadFootstepPlan(p, name) ==
  LET initHeight == IF Len(p.name) > 0 THEN p.supportContact.z ELSE 0
      contacts == planContacts(name, initHeight)
  IN IF ~validPlan(name) THEN p ELSE
     rewind([name |-> name,
             contacts |-> contacts,
             nextFootstep |-> 0,
             supportContact |-> contacts[1],
             targetContact |-> contacts[1],
             nextContact |-> contacts[1],
             prevContact |-> contacts[1],
             advances |-> 0])

\* The FootstepPlan member before the constructor loads the initial plan
NoPlan ==
  [name |-> <<>>, contacts |-> <<>>, nextFootstep |-> 0,
   supportContact |-> [id |-> 0, z |-> 0], targetContact |-> [id |-> 0, z |-> 0],
   nextContact |-> [id |-> 0, z |-> 0], prevContact |-> [id |-> 0, z |-> 0],
   advances |-> 0]

\* A plan can be followed by the model while its contacts stay below MaxHeight
Followable(p) == \A i \in 1..Len(p.contacts) : p.contacts[i].z <= MaxHeight

(***************************************************************************)
(* ModelPredictiveControl (ModelPredictiveControl.h): the phases of the    *)
(* preview horizon.  Durations are counted in half sampling periods.       *)
(***************************************************************************)
\* ModelPredictiveControl::SAMPLING_PERIOD, in half sampling periods
SAMPLING_PERIOD == 2

\* ModelPredictiveControl::NB_STEPS
NB_STEPS == 16

\* static_cast<unsigned>(std::round(duration / SAMPLING_PERIOD))
roundSteps(duration) == (2 * duration + SAMPLING_PERIOD) \div (2 * SAMPLING_PERIOD)

\* The support region of every sample after the first double support is
\* that of the target contact, whether or not a target phase is previewed
hrepIndex_TargetAfterDS(i, nbInit, nbDS, nbTarget, nbNextDS) ==
  IF i < nbInit \/ (0 < i /\ i = nbInit) THEN 0
  ELSE IF i - nbInit < nbDS THEN 1
  ELSE IF i - nbInit - nbDS <= nbTarget \/ nbNextDS = 0 THEN 2
  ELSE 3

\* indexToHrep_[i]: which of the four support regions (initial contact,
\* first double support, target contact, second double support) constrains
\* the ZMP of sample i.  The single-support region still holds at the first
\* sample of the double support that follows it.
hrepIndex(i, nbInit, nbDS, nbTarget, nbNextDS) ==
  IF i < nbInit \/ (0 < i /\ i = nbInit) THEN 0
  ELSE IF i - nbInit < nbDS THEN 1
  ELSE IF nbTarget > 0
       THEN IF i - nbInit - nbDS <= nbTarget THEN 2
            ELSE IF nbNextDS > 0 THEN 3 ELSE 2
       ELSE 1

\* The phases cut from the front: the first phase gives way first
phaseDurations_TrimFirst(initSupportDuration, doubleSupportDuration, targetSupportDuration) ==
  LET nbTarget == Min(roundSteps(targetSupportDuration), NB_STEPS)
      nbDS == Min(roundSteps(doubleSupportDuration), NB_STEPS - nbTarget)
      nbInit == Min(roundSteps(initSupportDuration), NB_STEPS - nbTarget - nbDS)
      nbNextDS == IF nbTarget > 0 THEN NB_STEPS - nbInit - nbDS - nbTarget ELSE 0
  IN [nbInitSupportSteps |-> nbInit,
      nbDoubleSupportSteps |-> nbDS,
      nbTargetSupportSteps |-> nbTarget,
      nbNextDoubleSupportSteps |-> nbNextDS,
      indexToHrep |-> [i \in 0..NB_STEPS |-> hrepIndex(i, nbInit, nbDS, nbTarget, nbNextDS)]]

\* ModelPredictiveControl::phaseDurations(): each phase gets its duration in
\* samples or what is left of the horizon, in the order of the phases; with
\* a target phase the rest of the horizon is a second double support
phaseDurations(initSupportDuration, doubleSupportDuration, targetSupportDuration) ==
  LET nbInit == Min(roundSteps(initSupportDuration), NB_STEPS)
      nbDS == Min(roundSteps(doubleSupportDuration), NB_STEPS - nbInit)
      nbTarget == Min(roundSteps(targetSupportDuration), NB_STEPS - nbInit - nbDS)
      nbNextDS == IF nbTarget > 0 THEN NB_STEPS - nbInit - nbDS - nbTarget ELSE 0
  IN [nbInitSupportSteps |-> nbInit,
      nbDoubleSupportSteps |-> nbDS,
      nbTargetSupportSteps |-> nbTarget,
      nbNextDoubleSupportSteps |-> nbNextDS,
      indexToHrep |-> [i \in 0..NB_STEPS |-> hrepIndex(i, nbInit, nbDS, nbTarget, nbNextDS)]]

\* Longest phase duration asked for, in half sampling periods
MaxDuration == 36

\* Phase durations asked for: none, short ones, and longer ones up to past
\* the horizon
Durations == {d \in 0..MaxDuration : d <= 2 \/ d % 7 = 0 \/ d % 10 = 0}

\* ModelPredictiveControl::phaseDurations() called by a walking state
MpcPhaseDurations ==
  \E ssp1 \in Durations, dsp \in Durations, ssp2 \in Durations :
    /\ call' = [op |-> "ModelPredictiveControl::phaseDurations",
                in |-> <<ssp1, dsp, ssp2>>,
                ret |-> phaseDurations(ssp1, dsp, ssp2),
                calls |-> <<>>, failedSolves |-> call.failedSolves]
    /\ UNCHANGED <<stab, pendulum, ctl, plan>>

(***************************************************************************)
(* Controller (src/src/Controller.cpp, src/include/vhip_walking/Controller.h) *)
(***************************************************************************)
\* MAX_HEIGHT_DIFF of pauseWalkingCallback(): 0.02 m
MAX_HEIGHT_DIFF == 2

\* plan.doubleSupportDuration() in control ticks (0.1 s at 200 Hz)
DSP_DURATION == 20

\* The control clock is followed up to MaxTicks ticks
MaxTicks == 6

\* The failure counter is followed up to MaxFailures failures
MaxFailures == 3

\* Solutions the MPC can return
PreviewSolutions == {1, 2}

FsmStates == {"Initial", "Standing", "DoubleSupport", "SingleSupport"}

\* The world the control tick works on; calls lists the calls the FSM made
\* to internalReset() and updatePreview() in the tick
World(s, pen, c, p) ==
  [stab |-> s, pendulum |-> pen, ctl |-> c, plan |-> p, calls |-> <<>>]

\* LowPassVelocityFilter (utils/LowPassVelocityFilter.h) with a cutoff
\* period of two ticks: reset(pos), update(newPos), updatePositionOnly(newPos)
filterReset(pos) == [pos |-> pos, vel |-> VZero]

filterUpdate(f, newPos) ==
  [pos |-> newPos, vel |-> VDiv(VAdd(f.vel, VSub(newPos, f.pos)), 2)]

filterUpdatePositionOnly(f, newPos) == [f EXCEPT !.pos = newPos]

\* Pendulum::reset(com): at rest above the ground, omega = sqrt(g / h)
pendulumReset(com) ==
  [com |-> com, comd |-> VZero, comdd |-> VZero, omega |-> 3, zmp |-> Vec(com.x, 0)]

\* The read of the duration that keeps the override for the reads after it
doubleSupportDuration_Sticky(c) ==
  IF c.doubleSupportDurationOverride > 0
  THEN [duration |-> c.doubleSupportDurationOverride, ctl |-> c]
  ELSE [duration |-> DSP_DURATION, ctl |-> c]

\* Controller::doubleSupportDuration(): the duration and the controller after
doubleSupportDuration(c) ==
  IF c.doubleSupportDurationOverride > 0
  THEN [duration |-> c.doubleSupportDurationOverride,
        ctl |-> [c EXCEPT !.doubleSupportDurationOverride = -1]]
  ELSE [duration |-> DSP_DURATION, ctl |-> c]

\* Controller::nextDoubleSupportDuration(duration)
nextDoubleSupportDuration(c, duration) ==
  [c EXCEPT !.doubleSupportDurationOverride = duration]

\* Controller::leftFootRatio(ratio), ratios in percent:
\* maxRatioVar = 1.5 * timeStep / plan.doubleSupportDuration()
leftFootRatio(c, ratio) ==
  LET jumped == DSP_DURATION * Abs(ratio - c.leftFootRatio) > 150
  IN [c EXCEPT !.leftFootRatioJumped = IF jumped THEN TRUE ELSE @,
               !.leftFootRatio = clamp(ratio, 0, 100)]

\* The update that leaves the jump flag raised
updateRealFromKinematics_KeepFlag(c, realCom) ==
  LET f == IF ~c.leftFootRatioJumped
           THEN filterUpdate(c.comVelFilter, realCom)
           ELSE filterUpdatePositionOnly(c.comVelFilter, realCom)
  IN [c EXCEPT !.realCom = realCom,
               !.comVelFilter = f,
               !.realComd = f.vel]

\* Controller::updateRealFromKinematics(): realCom is realRobot().com()
updateRealFromKinematics(c, realCom) ==
  LET f == IF ~c.leftFootRatioJumped
           THEN filterUpdate(c.comVelFilter, realCom)
           ELSE filterUpdatePositionOnly(c.comVelFilter, realCom)
  IN [c EXCEPT !.realCom = realCom,
               !.comVelFilter = f,
               !.leftFootRatioJumped = FALSE,
               !.realComd = f.vel]

\* The pause callback that does not look at the heights of the contacts
pauseWalkingCallback_AnyGround(c, p, verbose) ==
  IF c.pauseWalking
  THEN c
  ELSE [c EXCEPT !.pauseWalkingRequested = FALSE, !.pauseWalking = TRUE]

\* Controller::pauseWalkingCallback(verbose)
pauseWalkingCallback(c, p, verbose) ==
  IF c.pauseWalking
  THEN c
  ELSE IF Abs(supportContact(p).z - targetContact(p).z) > MAX_HEIGHT_DIFF
  THEN [c EXCEPT !.pauseWalkingRequested = TRUE]
  ELSE IF c.pauseWalkingRequested
  THEN [c EXCEPT !.pauseWalkingRequested = FALSE, !.pauseWalking = TRUE]
  ELSE [c EXCEPT !.pauseWalking = TRUE]

\* The preview update counting consecutive failures: a success clears the count
updatePreview_ClearOnSuccess(c, mpc) ==
  IF mpc.solved
  THEN [ctl |-> [c EXCEPT !.preview = mpc.solution, !.nbMPCFailures = 0], ret |-> TRUE]
  ELSE [ctl |-> [c EXCEPT !.nbMPCFailures = @ + 1], ret |-> FALSE]

\* Controller::updatePreview(): mpc.solved is what mpc_.solve() returns and
\* mpc.solution the solution it then holds.  Yields the controller and the
\* value returned.
updatePreview(c, mpc) ==
  IF mpc.solved
  THEN [ctl |-> [c EXCEPT !.preview = mpc.solution], ret |-> TRUE]
  ELSE [ctl |-> [c EXCEPT !.nbMPCFailures = @ + 1], ret |-> FALSE]

\* Controller::internalReset(): in.controlCom and in.realCom are the CoM of
\* the control and of the observed robot, in.wrench the net contact wrench
internalReset(w, in) ==
  LET p1 == loadFootstepPlan(w.plan, w.plan.name)
      s1 == reset(w.stab, w.pendulum, leftPose, rightPose)
      c1 == [w.ctl EXCEPT !.controlCom = in.controlCom,
                          !.controlComd = VZero,
                          !.leftFootRatioJumped = TRUE,
                          !.leftFootRatio = 50,
                          !.nbMPCFailures = 0,
                          !.pauseWalking = FALSE,
                          !.pauseWalkingRequested = FALSE,
                          !.comVelFilter = filterReset(in.controlCom)]
      pen1 == pendulumReset(in.controlCom)
      c2 == updateRealFromKinematics(c1, in.realCom)
      s2 == updateState(s1, c2.realCom, c2.realComd, in.wrench, c2.leftFootRatio)
  IN [w EXCEPT !.stab = s2, !.pendulum = pen1, !.ctl = c2, !.plan = p1]

(***************************************************************************)
(* The walking states of the FSM (states/Initial, Standing, DoubleSupport, *)
(* SingleSupport), by what they do to the controller.  A phase ends when   *)
(* the tick's event is "next": its timers are not followed.                *)
(***************************************************************************)
\* FootstepPlan::restorePreviousFootstep()
restorePreviousFootstep(p) ==
  [p EXCEPT !.nextContact = p.targetContact,
            !.targetContact = p.supportContact,
            !.supportContact = p.prevContact,
            !.nextFootstep = @ - 1]

\* states::Standing::start(): a finished plan is loaded again
standingStart(w) ==
  [w EXCEPT !.plan = IF isLastDSP(w.plan) THEN loadFootstepPlan(w.plan, w.plan.name) ELSE @,
            !.stab = [@ EXCEPT !.contactState = "DoubleSupport"],
            !.ctl = [@ EXCEPT !.fsm = "Standing", !.stopDuringThisDSP = FALSE]]

\* states::DoubleSupport::start(): reads the duration of the phase, and
\* takes a pending pause
doubleSupportStart(w) ==
  LET d == doubleSupportDuration(w.ctl)
      stop == d.ctl.pauseWalking \/ isLastDSP(w.plan)
  IN [w EXCEPT !.stab = [@ EXCEPT !.contactState = "DoubleSupport"],
               !.ctl = [d.ctl EXCEPT !.fsm = "DoubleSupport",
                                     !.stopDuringThisDSP = stop,
                                     !.pauseWalking = FALSE]]

\* states::SingleSupport::start(): the stabilizer stands on the support foot
singleSupportStart(w) ==
  [w EXCEPT !.stab = [@ EXCEPT !.contactState =
                        IF supportContact(w.plan).id % 2 = 1 THEN "LeftFoot" ELSE "RightFoot"],
            !.ctl = [@ EXCEPT !.fsm = "SingleSupport"]]

\* runState() of the three walking states: the preview is updated when it
\* is due (in.mpc.due), the reference pendulum follows the preview and the
\* stabilizer runs
walkingRun(w, in) ==
  LET c0 == IF in.mpc.due THEN updatePreview(w.ctl, in.mpc).ctl ELSE w.ctl
      c1 == IF w.ctl.fsm = "SingleSupport" THEN c0 ELSE leftFootRatio(c0, in.ratio)
  IN [w EXCEPT !.ctl = c1,
               !.calls = IF in.mpc.due THEN Append(@, <<"updatePreview", in.mpc.solved,
                                                        updatePreview(w.ctl, in.mpc).ret>>)
                         ELSE @,
               !.pendulum = in.pendulum,
               !.stab = run(w.stab, in.pendulum, in.stab)]

\* checkTransitions() of Standing after its runState(): on "next", unless the
\* plan is at its last step, the preview is updated and, if that succeeds,
\* DoubleSupport starts
standingCheck(w, in) ==
  LET r == updatePreview(w.ctl, in.mpc)
      w2 == [w EXCEPT !.ctl = r.ctl,
                      !.calls = Append(@, <<"updatePreview", in.mpc.solved, r.ret>>)]
  IN IF in.event = "next" /\ ~isLastSSP(w.plan)
     THEN IF r.ret THEN doubleSupportStart(w2) ELSE w2
     ELSE w

\* checkTransitions() of DoubleSupport after its runState()
doubleSupportCheck(w, in) ==
  IF in.event # "next" THEN w
  ELSE IF w.ctl.stopDuringThisDSP
  THEN standingStart(
         [w EXCEPT !.plan = IF isLastDSP(@) THEN @ ELSE restorePreviousFootstep(@)])
  ELSE singleSupportStart(w)

\* checkTransitions() of SingleSupport after its runState(): teardown()
\* advances the plan
singleSupportCheck(w, in) ==
  IF in.event # "next" THEN w
  ELSE doubleSupportStart(
         [w EXCEPT !.plan = [goToNextFootstep(@) EXCEPT !.advances = @ + 1]])

\* One run of the FSM executor: runState() and checkTransitions() of the
\* current state, and start() of the state it hands over to
fsmRun(w, in) ==
  CASE w.ctl.fsm = "Initial" ->
         IF in.event = "next" THEN standingStart(w)
         ELSE internalReset([w EXCEPT !.calls = Append(@, <<"internalReset">>)], in)
    [] w.ctl.fsm = "Standing" ->
         standingCheck(walkingRun(w, [in EXCEPT !.mpc.due = FALSE]), in)
    [] w.ctl.fsm = "DoubleSupport" -> doubleSupportCheck(walkingRun(w, in), in)
    [] w.ctl.fsm = "SingleSupport" -> singleSupportCheck(walkingRun(w, in), in)

\* The executor starts its first state, Initial, whose start() resets
fsmStart(w, in) ==
  internalReset([w EXCEPT !.ctl = [@ EXCEPT !.running = TRUE, !.fsm = "Initial"],
                          !.calls = Append(@, <<"internalReset">>)], in)

\* The tick that leaves a pending pause request alone
processPause_Never(w) == w

\* The part of Controller::run() before the FSM runs: the pending pause
\* request is processed
processPause(w) ==
  [w EXCEPT !.ctl = IF @.pauseWalkingRequested
                    THEN pauseWalkingCallback(@, w.plan, FALSE) ELSE @]

\* The observers' part of Controller::run(): stabilizer_.updateState() with
\* the estimates of the tick
observe(w, in) ==
  [w EXCEPT !.stab = updateState(@, w.ctl.realCom, w.ctl.realComd, in.wrench,
                                 w.ctl.leftFootRatio)]

\* Controller::run() once the emergency stop and the pause request are
\* dealt with
runTick(w, in) ==
  IF ~w.ctl.running
  THEN [w |-> fsmStart(w, in), ret |-> TRUE]
  ELSE [w |-> fsmRun(
                observe([w EXCEPT !.ctl = updateRealFromKinematics(
                                            [@ EXCEPT !.controlCom = in.controlCom,
                                                      !.controlComd = in.controlComd,
                                                      !.ctlTime = @ + 1],
                                            in.realCom)],
                        in),
                in),
        ret |-> TRUE]

\* The tick with the pending pause request taken before the emergency stop
\* is looked at
ControllerRun_PauseBeforeStop(w, in) ==
  IF w.ctl.emergencyStop
  THEN [w |-> processPause(w), ret |-> FALSE]
  ELSE runTick(processPause(w), in)

\* Controller::run(): in.controlCom, in.controlComd, in.realCom, in.wrench
\* are read from the robots and the wrench observer.  Yields the world after
\* the tick and the value returned.
ControllerRun(w, in) ==
  IF w.ctl.emergencyStop
  THEN [w |-> w, ret |-> FALSE]
  ELSE runTick(processPause(w), in)

\* The Controller after its constructor
ControllerInit ==
  [emergencyStop |-> FALSE, pauseWalking |-> FALSE, pauseWalkingRequested |-> FALSE,
   preview |-> 0,
   controlCom |-> VZero, controlComd |-> VZero, realCom |-> VZero, realComd |-> VZero,
   comVelFilter |-> filterReset(VZero),
   leftFootRatioJumped |-> FALSE, ctlTime |-> 0,
   doubleSupportDurationOverride |-> -1, leftFootRatio |-> 50,
   nbMPCFailures |-> 0,
   running |-> FALSE, fsm |-> "Initial", stopDuringThisDSP |-> FALSE]

(***************************************************************************)
(* Controller operations as actions                                        *)
(***************************************************************************)
\* CoM of the control robot and of the observed robot
ControlComs == { Vec(0, 100) }

RealComs == { Vec(0, 100), Vec(-2, 100) }

\* Left foot ratios the walking states ask for, in percent
Ratios == { 50, 100 }

NoSolve == [due |-> FALSE, solved |-> TRUE, solution |-> 0]

\* Outcomes of an MPC solve
Solves ==
  { [due |-> TRUE, solved |-> TRUE, solution |-> x] : x \in PreviewSolutions }
    \cup { [due |-> TRUE, solved |-> FALSE, solution |-> 0] }

NominalPendulum == pendulumReset(Vec(0, 100))

\* The stabilizer cycle of a tick on level ground with its QPs solved
NominalRun(s) ==
  RunInputsOf(s, {FeetOnGround}, {FeetLevel}, {StrongMinimum}, {VHIPNominal},
              {StrongMinimum}, {DSNominal}, {SSNominal})

\* What one tick reads in world w: the robots' CoM from RC, the event of the
\* FSM, the MPC solve from MPC when a state makes one, the pendulum from PEN
\* and the inputs of the stabilizer cycle.  What the tick does not read is
\* held at its nominal value.
TickInputsOf(w, RC, MPC, PEN) ==
  LET c == w.ctl
      stopped == c.emergencyStop
      starting == ~stopped /\ ~c.running
      initial == ~stopped /\ c.running /\ c.fsm = "Initial"
      walking == ~stopped /\ c.running /\ c.fsm # "Initial"
  IN { in \in [controlCom : ControlComs, controlComd : {VZero},
               realCom : RC \cup {Vec(0, 100)}, wrench : {staticWrench},
               event : {"stay", "next"},
               mpc : MPC \cup {NoSolve},
               ratio : Ratios,
               pendulum : PEN \cup {NominalPendulum},
               stab : NominalRun(w.stab)] :
         /\ in.realCom \in (IF stopped THEN {Vec(0, 100)} ELSE RC)
         /\ (stopped \/ starting) => in.event = "stay"
         /\ in.mpc \in (IF walking /\ c.fsm = "Standing"
                        THEN (IF in.event = "next" /\ ~isLastSSP(w.plan)
                              THEN MPC \ {NoSolve} ELSE {NoSolve})
                        ELSE IF walking THEN MPC \cup {NoSolve} ELSE {NoSolve})
         /\ in.ratio \in (IF walking /\ c.fsm # "SingleSupport" THEN Ratios ELSE {50})
         /\ in.pendulum \in (IF walking THEN PEN ELSE {NominalPendulum}) }

\* Failed solves among the calls of a tick, counted from n; a reset restarts
\* the count
RECURSIVE FailedSolves(_, _)
FailedSolves(calls, n) ==
  IF calls = <<>> THEN n
  ELSE FailedSolves(Tail(calls),
         IF Head(calls) = <<"internalReset">> THEN 0
         ELSE IF Head(calls)[1] = "updatePreview" /\ ~Head(calls)[2] THEN n + 1 ELSE n)

\* The tick whose outcome is r takes effect
CtlTick(r, in) ==
  /\ ctl.ctlTime < MaxTicks
  /\ r.w.ctl.nbMPCFailures <= MaxFailures
  /\ Followable(r.w.plan)
  /\ stab' = r.w.stab
  /\ pendulum' = r.w.pendulum
  /\ ctl' = r.w.ctl
  /\ plan' = r.w.plan
  /\ call' = [op |-> "Controller::run", in |-> in, ret |-> r.ret,
              calls |-> r.w.calls,
              failedSolves |-> FailedSolves(r.w.calls, call.failedSolves)]

\* One control tick, Controller::run(), with inputs from Ins
CtlRunOn(Ins) ==
  \E in \in Ins :
    CtlTick(ControllerRun(World(stab, pendulum, ctl, plan), in), in)

\* An operation on the controller's attributes alone
CtlOp(name, c) ==
  /\ ctl' = c
  /\ call' = [op |-> name, in |-> <<>>, ret |-> TRUE, calls |-> <<>>,
              failedSolves |-> call.failedSolves]
  /\ UNCHANGED <<stab, pendulum, plan>>

\* The emergency stop flag is raised or cleared (public member emergencyStop)
EmergencyStop ==
  \E b \in BOOLEAN :
    /\ ctl.emergencyStop # b
    /\ CtlOp("emergencyStop", [ctl EXCEPT !.emergencyStop = b])

\* GUI button "Pause walking": pauseWalkingCallback(true)
GuiPauseWalking == CtlOp("Pause walking", pauseWalkingCallback(ctl, plan, TRUE))

\* Controller::loadFootstepPlan(name) with a name from Names; ret is false
\* when the call ended with the exception of a rejected plan
LoadFootstepPlanOn(Names) ==
  \E name \in Names :
    /\ Followable(loadFootstepPlan(plan, name))
    /\ plan' = loadFootstepPlan(plan, name)
    /\ call' = [op |-> "Controller::loadFootstepPlan", in |-> name,
                ret |-> validPlan(name),
                calls |-> <<>>, failedSolves |-> call.failedSolves]
    /\ UNCHANGED <<stab, pendulum, ctl>>

\* Controller::loadFootstepPlan(name) from the GUI's plan selection
LoadFootstepPlan == LoadFootstepPlanOn(PlanNames)

\* The FSM completes a step on the plan: plan.goToNextFootstep()
PlanAdvance ==
  /\ ~isLastDSP(plan)
  /\ plan' = [goToNextFootstep(plan) EXCEPT !.advances = @ + 1]
  /\ call' = [op |-> "FootstepPlan::goToNextFootstep", in |-> <<>>, ret |-> TRUE,
              calls |-> <<>>, failedSolves |-> call.failedSolves]
  /\ UNCHANGED <<stab, pendulum, ctl>>

\* No operation invoked yet
NoCall == [op |-> "init", in |-> <<>>, ret |-> TRUE, calls |-> <<>>, failedSolves |-> 0]

(***************************************************************************)
(* Specifications                                                          *)
(***************************************************************************)
\* The shipped configuration and the one out of range in every gain
ShippedConfig == CHOOSE c \in Configs : c.dcm_feedback.gain = 2

OutOfRangeConfig == CHOOSE c \in Configs : c.dcm_feedback.gain = 0

StandingMeasurement == CHOOSE m \in Measurements : m.com = Vec(0, 100) /\ m.lfr = 50

\* The controller after its constructor on the plan `name`; there is none
\* when loading the initial plan throws
ConstructedOn(config, m, name) ==
  /\ pendulum = NominalPendulum
  /\ stab = StabilizerInit(config, NominalPendulum, m)
  /\ ctl = ControllerInit
  /\ validPlan(name)
  /\ plan = loadFootstepPlan(NoPlan, name)
  /\ call = NoCall

\* The plan the stabilizer specifications stand on
LevelPlan == <<0, 0, 0>>

\* A measurement behind the reference, and one ahead of and above it
LaggingMeasurement == CHOOSE m \in Measurements : m.com = Vec(-9, 100)

LeadingMeasurement == CHOOSE m \in Measurements : m.com = Vec(9, 110)

\* The stabilizer pipeline: cycles on the ground and in the air, in every
\* contact state and under both models, with gains that the configuration
\* puts out of range again between cycles
PipelineInputs(s) ==
  RunInputsOf(s, FootForces, {FeetLevel}, {StrongMinimum}, {VHIPNominal},
              {StrongMinimum}, {DSShifted}, {SSNominal})

InitPipeline ==
  \E config \in Configs : ConstructedOn(config, LaggingMeasurement, LevelPlan)

NextPipeline ==
  \/ StabRunOn(PipelineInputs(stab))
  \/ StabContactState
  \/ GuiReconfigure
  \/ GuiTemplateModel

SpecPipeline == InitPipeline /\ [][NextPipeline]_vars

(***************************************************************************)
(* C1: every Stabilizer::run() takes its eight steps once each, in the     *)
(* order checkGains, checkInTheAir, updateSupportFootGains,                *)
(* updateZMPFrame, computeDesiredWrench, distributeWrench,                 *)
(* updateCoMAdmittanceControl, updateFootForceDifferenceControl; so the    *)
(* in-the-air flag, the clamped gains and the ZMP frame that the desired   *)
(* wrench, the distribution and the admittance steps read are the ones of  *)
(* the same cycle: the flag is that of the cycle's foot forces and gates   *)
(* the cycle's DCM integration and foot velocities, the linear law and the *)
(* admittance velocity are those of the clamped gains, and the ZMPs are    *)
(* taken in the frame of the cycle's contact state.                        *)
(***************************************************************************)
C1_Steps ==
  << "checkGains", "checkInTheAir", "updateSupportFootGains", "updateZMPFrame",
     "computeDesiredWrench", "distributeWrench", "updateCoMAdmittanceControl",
     "updateFootForceDifferenceControl" >>

C1_Frame(s) ==
  CASE s.contactState = "DoubleSupport" ->
         Vec(Div(s.leftFootContact.x + s.rightFootContact.x, 2),
             Div(s.leftFootContact.z + s.rightFootContact.z, 2))
    [] s.contactState = "LeftFoot" -> s.leftFootContact
    [] s.contactState = "RightFoot" -> s.rightFootContact

C1_LinearForce(s, pen) ==
  LET omega2 == pen.omega * pen.omega
      comdError == VSub(pen.comd, s.measuredCoMd)
      accel == VAdd(VAdd(pen.comdd, VScale(s.dcmGain * omega2, s.dcmError)),
                    VAdd(VScale(pen.omega, comdError),
                         VScale(s.dcmIntegralGain * omega2, s.dcmAverageError)))
  IN VScale(MASS, VSub(accel, gravity))

C1_Cycle ==
  LET s == stab'
      in == call'.in
      pen == pendulum'
      airborne == in.LFz < MIN_DS_PRESSURE /\ in.RFz < MIN_DS_PRESSURE
      linear == s.model = "LinearInvertedPendulum"
      ds == s.contactState = "DoubleSupport"
  IN /\ s.steps = C1_Steps
     /\ s.inTheAir = airborne
     /\ s.zmpFrame = C1_Frame(s)
     /\ s.measuredZMP = computeZMP(s, pen, C1_Frame(s), s.measuredWrench)
     /\ linear => s.desiredWrench.force = C1_LinearForce(s, pen)
     /\ linear => s.dcmIntegrator = IF airborne THEN stab.dcmIntegrator
                                    ELSE EmaAppend(stab.dcmIntegrator, s.dcmError)
     /\ s.distributed = s.desiredWrench
     /\ s.zmpccError = VSub(computeZMP(s, pen, C1_Frame(s), s.distribWrench), s.measuredZMP)
     /\ (ds \/ ~s.zmpccOnlyDS) => s.zmpccCoMVel.x = -(s.comAdmittance.x * s.zmpccError.x)
     /\ ds => /\ s.leftFootTask.admittance = s.copAdmittance
              /\ s.rightFootTask.admittance = s.copAdmittance
     /\ (airborne \/ ~ds) => s.leftFootTask.refVelB = 0 /\ s.rightFootTask.refVelB = 0

C1_RunOrder == [][call'.op = "Stabilizer::run" => C1_Cycle]_vars

\* C1 witness: a cycle in the air under the linear model that clamped the
\* gains the configuration had put out of range, with a DCM error to feed back
C1_Witness ==
  /\ call.op = "Stabilizer::run"
  /\ stab.inTheAir
  /\ stab.model = "LinearInvertedPendulum"
  /\ stab.config.dcm_feedback.gain < MIN_DCM_P_GAIN
  /\ stab.dcmGain = MIN_DCM_P_GAIN
  /\ stab.dcmError # VZero
  /\ stab.dcmAverageError # VZero

\* The desired wrench: cycles under both models with every outcome and
\* result of the VHIP feedback QP, while the measurements and the reference
\* pendulum change between cycles
DesiredWrenchInputs(s) ==
  RunInputsOf(s, {FeetOnGround, <<0, 0>>}, {FeetLevel}, SolverOutcomes, VHIPResults,
              {StrongMinimum}, {DSNominal}, {SSNominal})

DesiredWrenchMeasurements == {StandingMeasurement, LaggingMeasurement}

InitDesiredWrench == ConstructedOn(ShippedConfig, LaggingMeasurement, LevelPlan)

NextDesiredWrench ==
  \/ StabRunOn(DesiredWrenchInputs(stab))
  \/ StabUpdateStateOn(DesiredWrenchMeasurements)
  \/ PendulumUpdate
  \/ GuiTemplateModel

SpecDesiredWrench == InitDesiredWrench /\ [][NextDesiredWrench]_vars

\* C2: when the variable-height model is selected and its feedback QP reports
\* failure, the desired wrench of the cycle is exactly the wrench of the
\* linear-inverted-pendulum law for the same reference and measured state,
\* the error is logged and vhipOmega_, vhipLambda_, vhipZMP_ and vhipDCM_
\* keep their previous values; in every cycle, whatever the model and the
\* solver outcome, a desired wrench is produced and is the one handed to
\* wrench distribution.
C2_LinearWrench(s, pen) ==
  LET omega2 == pen.omega * pen.omega
      comError == VSub(pen.com, s.measuredCoM)
      comdError == VSub(pen.comd, s.measuredCoMd)
      dcmError == Vec(comError.x + Div(comdError.x, pen.omega), 0)
      accel == VAdd(VAdd(pen.comdd, VScale(s.dcmGain * omega2, dcmError)),
                    VAdd(VScale(pen.omega, comdError),
                         VScale(s.dcmIntegralGain * omega2, s.dcmAverageError)))
      force == VScale(MASS, VSub(accel, gravity))
  IN Wrench(Cross(pen.com, force), force)

C2_Position(steps, name) == CHOOSE i \in 1..Len(steps) : steps[i] = name

C2_Cycle ==
  LET s == stab'
      in == call'.in
      vhipFailed == /\ stab.model = "VariableHeightInvertedPendulum"
                    /\ ~in.vhip.success
      logged == {s.log[i] : i \in 1..Len(s.log)}
      steps == {s.steps[i] : i \in 1..Len(s.steps)}
  IN /\ vhipFailed =>
          /\ s.desiredWrench = C2_LinearWrench(s, pendulum)
          /\ "VHIP feedback QP failed to run" \in logged
          /\ s.vhipOmega = stab.vhipOmega
          /\ s.vhipLambda = stab.vhipLambda
          /\ s.vhipZMP = stab.vhipZMP
          /\ s.vhipDCM = stab.vhipDCM
     /\ ~vhipFailed => "VHIP feedback QP failed to run" \notin logged
     /\ {"computeDesiredWrench", "distributeWrench"} \subseteq steps
     /\ C2_Position(s.steps, "computeDesiredWrench") + 1
          = C2_Position(s.steps, "distributeWrench")
     /\ s.distributed = s.desiredWrench

C2_FallbackIsLinearLaw == [][call'.op = "Stabilizer::run" => C2_Cycle]_vars

\* C2 witness: a cycle under the variable-height model whose QP failed, with
\* a DCM error to feed back and VHIP outputs stored by an earlier cycle that
\* differ from the reference
C2_Witness ==
  /\ call.op = "Stabilizer::run"
  /\ stab.model = "VariableHeightInvertedPendulum"
  /\ ~call.in.vhip.success
  /\ stab.dcmError # VZero
  /\ stab.vhipOmega = pendulum.omega + VHIPShifted.omega
  /\ stab.vhipLambda # 0
  /\ stab.vhipZMP # pendulum.zmp
  /\ stab.desiredWrench = C2_LinearWrench(stab, pendulum)

\* The linear feedback law: cycles on two feet, on one foot and in the air,
\* with the QPs solved, while the measured state is on the reference, behind
\* it or on the moving reference, and the reference stands or moves
LinearInputs(s) ==
  RunInputsOf(s, FootForces, {FeetLevel}, {StrongMinimum}, {VHIPNominal},
              {StrongMinimum}, {DSNominal}, {SSNominal})

\* The measured state on the moving reference of Pendulums
TrackingMeasurement ==
  [com |-> Vec(2, 100), comd |-> Vec(3, 0), wrench |-> staticWrench, lfr |-> 50]

LinearMeasurements == {StandingMeasurement, LaggingMeasurement, TrackingMeasurement}

InitLinear == ConstructedOn(ShippedConfig, StandingMeasurement, LevelPlan)

NextLinear ==
  \/ StabRunOn(LinearInputs(stab))
  \/ StabUpdateStateOn(LinearMeasurements)
  \/ PendulumUpdate
  \/ GuiTemplateModel

SpecLinear == InitLinear /\ [][NextLinear]_vars

(***************************************************************************)
(* C13 as stated: in a cycle under the linear model in double support with *)
(* the measured CoM at the reference CoM, the desired wrench is the static *)
(* weight-support wrench: force -mass * gravity and no moment about the    *)
(* CoM.                                                                    *)
(***************************************************************************)
C13_MomentAboutCoM(w, com) == w.couple - Cross(com, w.force)

C13_Static(w, com) ==
  /\ w.force = VScale(-MASS, gravity)
  /\ C13_MomentAboutCoM(w, com) = 0

C13_LinearDS ==
  /\ call'.op = "Stabilizer::run"
  /\ stab.model = "LinearInvertedPendulum"
  /\ stab.contactState = "DoubleSupport"

C13_Original ==
  [][C13_LinearDS /\ stab.measuredCoM = pendulum.com
       => C13_Static(stab'.desiredWrench, pendulum.com)]_vars

(***************************************************************************)
(* C13 amended: in a cycle under the linear model in double support, the   *)
(* desired wrench has no moment about the reference CoM; and it is the     *)
(* static weight-support wrench when the measured CoM and its velocity are *)
(* those of the reference, the reference does not accelerate, and no DCM   *)
(* error has been accumulated (the average error is zero).                 *)
(***************************************************************************)
C13_AtRest ==
  /\ stab.measuredCoM = pendulum.com
  /\ stab.measuredCoMd = pendulum.comd
  /\ pendulum.comdd = VZero
  /\ stab.dcmIntegrator.average = VZero
  /\ stab.dcmAverageError = VZero

C13_StaticWhenFullyAtRest ==
  [][C13_LinearDS =>
       /\ C13_MomentAboutCoM(stab'.desiredWrench, pendulum.com) = 0
       /\ C13_AtRest => C13_Static(stab'.desiredWrench, pendulum.com)]_vars

\* C13 witness: a cycle of the linear model on the ground gave the static
\* wrench on a reference at rest
C13_Witness ==
  /\ call.op = "Stabilizer::run"
  /\ stab.model = "LinearInvertedPendulum"
  /\ stab.contactState = "DoubleSupport"
  /\ ~stab.inTheAir
  /\ C13_AtRest
  /\ pendulum.com.z > 0
  /\ stab.steps # <<>>
  /\ C13_Static(stab.desiredWrench, pendulum.com)
  /\ stab.desiredWrench.force.z = MASS * GRAVITY

(***************************************************************************)
(* C15: the in-the-air flag of a cycle is that of the cycle's foot forces  *)
(* (both below MIN_DS_PRESSURE), whatever it was before; in a cycle in the *)
(* air the DCM integrator takes no sample and dcmAverageError_ keeps its   *)
(* value, while the desired wrench is still computed (under the linear     *)
(* model, by the linear law on the average error kept) and distributed.    *)
(***************************************************************************)
C15_Airborne(in) == in.LFz < MIN_DS_PRESSURE /\ in.RFz < MIN_DS_PRESSURE

C15_Cycle ==
  LET s == stab'
      in == call'.in
      steps == {s.steps[i] : i \in 1..Len(s.steps)}
  IN /\ s.inTheAir <=> C15_Airborne(in)
     /\ C15_Airborne(in) =>
          /\ s.dcmIntegrator = stab.dcmIntegrator
          /\ s.dcmAverageError = stab.dcmAverageError
          /\ {"computeDesiredWrench", "distributeWrench"} \subseteq steps
          /\ stab.model = "LinearInvertedPendulum" =>
               s.desiredWrench = C2_LinearWrench(s, pendulum)
          /\ s.distributed = s.desiredWrench

C15_AirborneSkipsIntegration == [][call'.op = "Stabilizer::run" => C15_Cycle]_vars

\* C15 witness: a cycle of the linear model in the air with a DCM error that
\* the integrator would have taken, and an average error kept from before
C15_Witness ==
  /\ call.op = "Stabilizer::run"
  /\ C15_Airborne(call.in)
  /\ stab.inTheAir
  /\ stab.model = "LinearInvertedPendulum"
  /\ stab.dcmError # VZero
  /\ stab.dcmAverageError # VZero
  /\ stab.dcmAverageError = stab.dcmIntegrator.average

\* Wrench distribution: cycles on the ground in every contact state with
\* every outcome and result of the distribution QPs
DistribInputs(s) ==
  RunInputsOf(s, {FeetOnGround}, {FeetLevel}, {StrongMinimum}, {VHIPNominal},
              SolverOutcomes, DSResults, SSResults)

InitDistrib == ConstructedOn(ShippedConfig, StandingMeasurement, LevelPlan)

NextDistrib ==
  \/ StabRunOn(DistribInputs(stab))
  \/ StabContactState

SpecDistrib == InitDistrib /\ [][NextDistrib]_vars

\* C3: when the distribution QP of the current contact state fails (double
\* support: solve() returns false; single support: inform() is not
\* STRONG_MINIMUM), the failure is logged, the cycle still runs to its end,
\* and distribWrench_ and the target CoP and target force of every foot that
\* QP writes (both feet in double support, the support foot in single
\* support) are what they were before the call.
C3_Targets(task) == <<task.targetCoP, task.targetForce>>

C3_Cycle ==
  LET s == stab'
      in == call'.in
      ds == stab.contactState = "DoubleSupport"
      failed == IF ds THEN ~in.fdqp.success ELSE in.fdqp.inform # "STRONG_MINIMUM"
      logged == {s.log[i] : i \in 1..Len(s.log)}
      message == IF ds THEN "DS force distribution QP failed to run"
                 ELSE "SS force distribution QP failed to run"
  IN failed =>
       /\ message \in logged
       /\ call'.ret
       /\ Len(s.steps) = 8
       /\ s.steps[8] = "updateFootForceDifferenceControl"
       /\ s.distribWrench = stab.distribWrench
       /\ stab.contactState # "RightFoot" =>
            C3_Targets(s.leftFootTask) = C3_Targets(stab.leftFootTask)
       /\ stab.contactState # "LeftFoot" =>
            C3_Targets(s.rightFootTask) = C3_Targets(stab.rightFootTask)

C3_FailedDistributionRetains == [][call'.op = "Stabilizer::run" => C3_Cycle]_vars

\* C3 witness: a double-support cycle whose QP failed with a result that
\* differs from the retained targets, which an earlier cycle had written
C3_Witness ==
  /\ call.op = "Stabilizer::run"
  /\ stab.contactState = "DoubleSupport"
  /\ ~call.in.fdqp.success
  /\ stab.distribWrench = WAdd(DSShifted.l, DSShifted.r)
  /\ stab.leftFootTask.targetForce = DSShifted.l.force
  /\ stab.rightFootTask.targetForce = DSShifted.r.force
  /\ stab.rightFootTask.targetCoP # 0
  /\ call.in.dsResult = DSNominal

\* The gains: cycles on the ground between which the configuration, the
\* "Disable" and "Reconfigure" buttons and the GUI inputs write the gains
GainInputs(s) ==
  RunInputsOf(s, {FeetOnGround}, {FeetLevel}, {StrongMinimum}, {VHIPNominal},
              {StrongMinimum}, {DSShifted}, {SSNominal})

InitGains == ConstructedOn(OutOfRangeConfig, LaggingMeasurement, LevelPlan)

NextGains ==
  \/ StabRunOn(GainInputs(stab))
  \/ GuiDisable
  \/ GuiReconfigure
  \/ GuiFootAdmittance
  \/ GuiDCMFeedback
  \/ GuiCoMAdmittance
  \/ GuiTemplateModel

SpecGains == InitGains /\ [][NextGains]_vars

\* C6: whatever the configuration, reconfigure(), disable() or the GUI
\* inputs wrote, after each run() cycle the CoM admittance has x, y in
\* [0, MAX_COM_XY_ADMITTANCE] and z in [0, MAX_COM_Z_ADMITTANCE], the CoP
\* admittance x, y in [0, MAX_COP_ADMITTANCE], the DCM gain in
\* [MIN_DCM_P_GAIN, MAX_DCM_P_GAIN], the DCM integral gain in
\* [0, MAX_DCM_I_GAIN] and the DFz admittance in [0, MAX_DFZ_ADMITTANCE],
\* and these clamped values are the ones the cycle used: the foot tasks in
\* contact carry the CoP admittance, the CoM admittance velocity and, under
\* the linear model, the feedback force are those of the clamped gains.
C6_Within(v, lower, upper) == lower <= v /\ v <= upper

C6_InRange(s) ==
  /\ C6_Within(s.comAdmittance.x, 0, MAX_COM_XY_ADMITTANCE)
  /\ C6_Within(s.comAdmittance.y, 0, MAX_COM_XY_ADMITTANCE)
  /\ C6_Within(s.comAdmittance.z, 0, MAX_COM_Z_ADMITTANCE)
  /\ C6_Within(s.copAdmittance.x, 0, MAX_COP_ADMITTANCE)
  /\ C6_Within(s.copAdmittance.y, 0, MAX_COP_ADMITTANCE)
  /\ C6_Within(s.dcmGain, MIN_DCM_P_GAIN, MAX_DCM_P_GAIN)
  /\ C6_Within(s.dcmIntegralGain, 0, MAX_DCM_I_GAIN)
  /\ C6_Within(s.dfzAdmittance, 0, MAX_DFZ_ADMITTANCE)

C6_FeedbackForce(s, pen) ==
  LET omega2 == pen.omega * pen.omega
  IN MASS * (pen.comdd.x + s.dcmGain * omega2 * s.dcmError.x
             + pen.omega * (pen.comd.x - s.measuredCoMd.x)
             + s.dcmIntegralGain * omega2 * s.dcmAverageError.x)

C6_Used(s, pen) ==
  /\ s.leftFootTask.admittance = s.copAdmittance
  /\ s.rightFootTask.admittance = s.copAdmittance
  /\ s.zmpccCoMVel.x = -(s.comAdmittance.x * s.zmpccError.x)
  /\ s.model = "LinearInvertedPendulum" =>
       s.desiredWrench.force.x = C6_FeedbackForce(s, pen)

C6_GainsClamped ==
  call.op = "Stabilizer::run" => C6_InRange(stab) /\ C6_Used(stab, pendulum)

\* C6 witness: a cycle that clamped gains which the configuration had put
\* below and above their ranges, with errors for the clamped gains to act on
C6_Witness ==
  /\ call.op = "Stabilizer::run"
  /\ stab.config = OutOfRangeConfig
  /\ stab.dcmGain = MIN_DCM_P_GAIN
  /\ stab.dcmIntegralGain = MAX_DCM_I_GAIN
  /\ stab.comAdmittance = [x |-> MAX_COM_XY_ADMITTANCE, y |-> 0, z |-> MAX_COM_Z_ADMITTANCE]
  /\ stab.copAdmittance = [x |-> MAX_COP_ADMITTANCE, y |-> 0]
  /\ stab.dfzAdmittance = MAX_DFZ_ADMITTANCE
  /\ stab.model = "LinearInvertedPendulum"
  /\ stab.dcmError.x # 0
  /\ stab.zmpccError.x # 0

\* The integrators: cycles on the ground in double support under both
\* models, with a measurement ahead of and above the reference and a
\* distributed wrench off the measured one, while the altitude leak rate is
\* set and the integrators are zeroed from the GUI
IntegInputs(s) ==
  RunInputsOf(s, {FeetOnGround}, {FeetLevel}, {StrongMinimum}, {VHIPNominal},
              {StrongMinimum}, {DSShifted}, {SSShifted})

InitInteg == ConstructedOn(OutOfRangeConfig, LeadingMeasurement, LevelPlan)

NextInteg ==
  \/ StabRunOn(IntegInputs(stab))
  \/ GuiTemplateModel
  \/ GuiAltCCLeakRate
  \/ GuiResetIntegrator

SpecInteg == InitInteg /\ [][NextInteg]_vars

\* C7: after Stabilizer::reset(), through every sequence of run() cycles, each
\* component of dcmAverageError_ has magnitude at most
\* MAX_AVERAGE_DCM_ERROR, each component of zmpccCoMOffset_ at most
\* MAX_ZMPCC_COM_OFFSET and each component of altccCoMOffset_ at most
\* MAX_ALTCC_COM_OFFSET.
C7_Bounded(v, bound) == Abs(v.x) <= bound /\ Abs(v.z) <= bound

C7_OutputsWithinSaturation ==
  /\ C7_Bounded(stab.dcmAverageError, MAX_AVERAGE_DCM_ERROR)
  /\ C7_Bounded(stab.zmpccCoMOffset, MAX_ZMPCC_COM_OFFSET)
  /\ C7_Bounded(stab.altccCoMOffset, MAX_ALTCC_COM_OFFSET)
  /\ C7_Bounded(stab.dcmIntegrator.average, MAX_AVERAGE_DCM_ERROR)
  /\ C7_Bounded(stab.zmpccIntegrator.integral, MAX_ZMPCC_COM_OFFSET)
  /\ C7_Bounded(stab.altccIntegrator.integral, MAX_ALTCC_COM_OFFSET)

\* C7 witness: a cycle in which the three integrators were driven to their
\* saturations by inputs that would have carried them past it
C7_Witness ==
  /\ call.op = "Stabilizer::run"
  /\ Abs(stab.zmpccCoMOffset.x) = MAX_ZMPCC_COM_OFFSET
  /\ Abs(stab.altccCoMOffset.z) = MAX_ALTCC_COM_OFFSET
  /\ Abs(stab.dcmAverageError.x) = MAX_AVERAGE_DCM_ERROR
  /\ stab.zmpccCoMVel.x # 0
  /\ stab.altccCoMVel.z # 0
  /\ Abs(stab.dcmError.x) > MAX_AVERAGE_DCM_ERROR

\* C8 (as stated): a leaky integrator with leak rate r > 0 that receives zero
\* input (the ZMPCC integrator outside double support in
\* only-double-support mode, the altitude integrator under the linear
\* model) has every component of its stored value non-increasing in
\* magnitude from each cycle to the next, moving toward zero without
\* overshooting it, and within the saturation bound.
C8_Decays(before, after, saturation) ==
  /\ Abs(after.x) <= Abs(before.x) /\ after.x * before.x >= 0
  /\ Abs(after.z) <= Abs(before.z) /\ after.z * before.z >= 0
  /\ Abs(after.x) <= saturation /\ Abs(after.z) <= saturation

C8_Cycle ==
  /\ (stab.zmpccOnlyDS /\ stab.contactState # "DoubleSupport"
        /\ stab.zmpccIntegrator.rate > 0)
       => C8_Decays(stab.zmpccIntegrator.integral, stab'.zmpccCoMOffset,
                    MAX_ZMPCC_COM_OFFSET)
  /\ (stab.model = "LinearInvertedPendulum" /\ stab.altccIntegrator.rate > 0)
       => C8_Decays(stab.altccIntegrator.integral, stab'.altccCoMOffset,
                    MAX_ALTCC_COM_OFFSET)

TickInputs(w) == TickInputsOf(w, {Vec(0, 100)}, Solves, {NominalPendulum})

SteppedPlan == <<0, 3, 3>>

InitCtl ==
  \E name \in {LevelPlan, SteppedPlan} :
    ConstructedOn(ShippedConfig, StandingMeasurement, name)

NextCtl ==
  \/ CtlRunOn(TickInputs(World(stab, pendulum, ctl, plan)))
  \/ EmergencyStop
  \/ GuiPauseWalking

SpecCtl == InitCtl /\ [][NextCtl]_vars

\* C4: updatePreview() returns false on a failed MPC solve, increments
\* nbMPCFailures_ by exactly one and leaves preview as it was; on a solve
\* that succeeds it returns true, replaces preview with the new solution and
\* leaves the counter unchanged.  Over any sequence of calls nbMPCFailures_
\* is the number of failed solves since the last internalReset() and does
\* not decrease in between.
C4_Calls(name) ==
  {i \in 1..Len(call'.calls) : call'.calls[i][1] = name}

C4_Update(solved, ret) ==
  IF solved
  THEN /\ ret
       /\ ctl'.preview = call'.in.mpc.solution
       /\ ctl'.nbMPCFailures = ctl.nbMPCFailures
  ELSE /\ ~ret
       /\ ctl'.preview = ctl.preview
       /\ ctl'.nbMPCFailures = ctl.nbMPCFailures + 1

C4_Step ==
  /\ \A i \in C4_Calls("updatePreview") :
        C4_Update(call'.calls[i][2], call'.calls[i][3])
  /\ C4_Calls("updatePreview") = {} /\ C4_Calls("internalReset") = {}
       => ctl'.nbMPCFailures = ctl.nbMPCFailures /\ ctl'.preview = ctl.preview
  /\ C4_Calls("internalReset") = {} => ctl'.nbMPCFailures >= ctl.nbMPCFailures
  /\ C4_Calls("internalReset") # {} => ctl'.nbMPCFailures = 0
  /\ ctl'.nbMPCFailures = call'.failedSolves

C4_FailuresCounted == [][C4_Step]_vars

\* C4 witness: a second failed solve after a solve that succeeded, the preview
\* still being the solution of the latter
C4_Witness ==
  /\ call.op = "Controller::run"
  /\ \E i \in 1..Len(call.calls) :
       call.calls[i] = <<"updatePreview", FALSE, FALSE>>
  /\ ctl.nbMPCFailures = 2
  /\ ctl.preview \in PreviewSolutions

\* C5: when emergencyStop is set at the start of a tick, Controller::run()
\* returns false and changes nothing: the control time, the CoM estimates,
\* the pause flags (a pending request is not processed), the stabilizer, the
\* pendulum, the plan cursor and the FSM are as they were.
C5_StoppedTick ==
  (call'.op = "Controller::run" /\ ctl.emergencyStop) =>
    /\ ~call'.ret
    /\ call'.calls = <<>>
    /\ UNCHANGED <<ctl, stab, pendulum, plan>>

C5_EmergencyStopFreezes == [][C5_StoppedTick]_vars

\* C5 witness: a tick under emergency stop while the walk is under way, with
\* a pause request pending that the contacts, now level, would let through
C5_Witness ==
  /\ call.op = "Controller::run"
  /\ ~call.ret
  /\ ctl.emergencyStop
  /\ ctl.pauseWalkingRequested
  /\ ~ctl.pauseWalking
  /\ Abs(supportContact(plan).z - targetContact(plan).z) <= MAX_HEIGHT_DIFF
  /\ ctl.running
  /\ ctl.ctlTime > 0

\* The plan cursor: any plan is loaded, rewound and walked to its end
InitPlan == \E name \in PlanNames : ConstructedOn(ShippedConfig, StandingMeasurement, name)

NextPlan == LoadFootstepPlan \/ PlanAdvance

SpecPlan == InitPlan /\ [][NextPlan]_vars

(***************************************************************************)
(* C9: from rewind() on, advancing one step at a time, isLastDSP() (the   *)
(* support contact's id is greater than the target contact's) is false     *)
(* before the final step and true exactly at the final step, that is after *)
(* as many advances as the plan has contacts, less one; no advance follows.*)
(***************************************************************************)
C9_LastDSPExactlyAtFinalStep ==
  /\ plan.advances <= Len(plan.contacts) - 1
  /\ isLastDSP(plan) <=> plan.advances = Len(plan.contacts) - 1

\* C9 witness: a plan of the greatest length walked to its final step
C9_Witness ==
  /\ call.op = "FootstepPlan::goToNextFootstep"
  /\ Len(plan.contacts) = MaxContacts
  /\ isLastDSP(plan)

C10_CursorAt ==
  LET k == plan.advances
      n == Len(plan.contacts)
      s == supportContact(plan).id
      t == targetContact(plan).id
      x == nextContact(plan).id
  IN /\ s = k
     /\ k < n - 2 => t = k + 1 /\ x = k + 2 /\ s <= t /\ t <= x
     /\ k = n - 2 => t = k + 1 /\ x = k
     /\ k = n - 1 => t = k - 1 /\ x = k

C10_AdvanceMonotone ==
  call'.op = "FootstepPlan::goToNextFootstep" =>
    /\ supportContact(plan').id >= supportContact(plan).id
    /\ plan'.advances < Len(plan'.contacts) - 2 =>
         /\ targetContact(plan').id >= targetContact(plan).id
         /\ nextContact(plan').id >= nextContact(plan).id

InitPhases == ConstructedOn(ShippedConfig, StandingMeasurement, LevelPlan)

NextPhases == MpcPhaseDurations

SpecPhases == InitPhases /\ [][NextPhases]_vars

(***************************************************************************)
(* C11: when the three phases asked of phaseDurations() do not fit in the  *)
(* horizon of NB_STEPS samples, the phases kept fill the horizon exactly   *)
(* and the excess is taken from the last phase first: the first double     *)
(* support is shortened only once the target single support is down to    *)
(* zero, the initial single support only once both others are down to      *)
(* zero, and the initial single support keeps its length whenever it fits  *)
(* in the horizon by itself.                                               *)
(***************************************************************************)
C11_TrimmedFromLast ==
  call.op = "ModelPredictiveControl::phaseDurations" =>
    LET ssp1 == roundSteps(call.in[1])
        dsp == roundSteps(call.in[2])
        ssp2 == roundSteps(call.in[3])
        m == call.ret
    IN ssp1 + dsp + ssp2 > NB_STEPS =>
         /\ m.nbInitSupportSteps + m.nbDoubleSupportSteps + m.nbTargetSupportSteps = NB_STEPS
         /\ m.nbInitSupportSteps <= ssp1
         /\ m.nbDoubleSupportSteps <= dsp
         /\ m.nbTargetSupportSteps <= ssp2
         /\ m.nbDoubleSupportSteps < dsp => m.nbTargetSupportSteps = 0
         /\ m.nbInitSupportSteps < ssp1 =>
              m.nbDoubleSupportSteps = 0 /\ m.nbTargetSupportSteps = 0
         /\ ssp1 <= NB_STEPS => m.nbInitSupportSteps = ssp1

\* C11 witness: the target phase is trimmed away and the double support
\* shortened, the initial single support keeping its length
C11_Witness ==
  /\ call.op = "ModelPredictiveControl::phaseDurations"
  /\ roundSteps(call.in[1]) + roundSteps(call.in[2]) + roundSteps(call.in[3]) > NB_STEPS
  /\ roundSteps(call.in[3]) > 0
  /\ call.ret.nbTargetSupportSteps = 0
  /\ call.ret.nbDoubleSupportSteps > 0
  /\ call.ret.nbDoubleSupportSteps < roundSteps(call.in[2])
  /\ call.ret.nbInitSupportSteps = roundSteps(call.in[1])
  /\ call.ret.nbInitSupportSteps > 0

(***************************************************************************)
(* C12: when the three phases asked of phaseDurations() sum to less than   *)
(* the horizon, then either there is a target single support and the three *)
(* phases keep their lengths, the samples after them being those of a      *)
(* second double support (full preview); or there is none, and every       *)
(* sample after the initial single support is one of the first double      *)
(* support, up to the end of the horizon, with no second double support    *)
(* (half preview).                                                         *)
(***************************************************************************)
C12_FullOrHalfPreview ==
  call.op = "ModelPredictiveControl::phaseDurations" =>
    LET ssp1 == roundSteps(call.in[1])
        dsp == roundSteps(call.in[2])
        ssp2 == roundSteps(call.in[3])
        m == call.ret
    IN ssp1 + dsp + ssp2 < NB_STEPS =>
         /\ m.nbInitSupportSteps = ssp1
         /\ m.nbDoubleSupportSteps = dsp
         /\ m.nbTargetSupportSteps = ssp2
         /\ ssp2 > 0 =>
              /\ m.nbNextDoubleSupportSteps = NB_STEPS - ssp1 - dsp - ssp2
              /\ \A i \in 0..NB_STEPS :
                   m.indexToHrep[i] = 3 <=> i > ssp1 + dsp + ssp2
         /\ ssp2 = 0 =>
              /\ m.nbNextDoubleSupportSteps = 0
              /\ \A i \in 0..NB_STEPS :
                   m.indexToHrep[i] = (IF i < ssp1 \/ (0 < i /\ i = ssp1) THEN 0 ELSE 1)

\* C12 witness: a half preview whose double support, asked shorter than the
\* rest of the horizon, reaches the last sample
C12_Witness ==
  /\ call.op = "ModelPredictiveControl::phaseDurations"
  /\ roundSteps(call.in[3]) = 0
  /\ roundSteps(call.in[1]) > 0
  /\ roundSteps(call.in[2]) > 0
  /\ roundSteps(call.in[1]) + roundSteps(call.in[2]) < NB_STEPS - 1
  /\ call.ret.indexToHrep[NB_STEPS] = 1


\* Foot force difference control: cycles in every contact state, on two
\* feet, on one foot and in the air, with the feet level or not and every
\* result of the double-support distribution
FeetInputs(s) ==
  RunInputsOf(s, FootForces, FootHeights, {StrongMinimum}, {VHIPNominal},
              {StrongMinimum}, DSResults, {SSNominal})

InitFeet == ConstructedOn(ShippedConfig, StandingMeasurement, LevelPlan)

NextFeet ==
  \/ StabRunOn(FeetInputs(stab))
  \/ StabContactState
  \/ GuiFootAdmittance

SpecFeet == InitFeet /\ [][NextFeet]_vars

(***************************************************************************)
(* C14: at the end of a cycle outside double support, or in the air, both  *)
(* feet's reference velocities and the six diagnostics of the foot force   *)
(* difference control are zero; at the end of a cycle in double support on *)
(* the ground the left and right reference velocities are                  *)
(* (velT - velF) / 2 and (velT + velF) / 2, velF being the force           *)
(* difference term (less the damping term) and velT the height sum term of *)
(* the cycle's measurements, targets and gains.                            *)
(***************************************************************************)
C14_Cycle ==
  LET s == stab'
      in == call'.in
      velF == s.dfzAdmittance * ((s.leftFootTask.targetForce.z - s.rightFootTask.targetForce.z)
                                   - (in.LFz - in.RFz))
                - s.vdcDamping * (in.RTz - in.LTz)
      velT == s.vdcFrequency * ((s.leftFootTask.targetPose.z + s.rightFootTask.targetPose.z)
                                  - (in.LTz + in.RTz))
  IN IF s.contactState # "DoubleSupport" \/ s.inTheAir
     THEN /\ s.leftFootTask.refVelB = 0
          /\ s.rightFootTask.refVelB = 0
          /\ s.logMeasuredDFz = 0
          /\ s.logTargetDFz = 0
          /\ s.logMeasuredSTz = 0
          /\ s.logTargetSTz = 0
          /\ s.vdcZPos = 0
          /\ s.vfcZCtrl = 0
     ELSE /\ s.leftFootTask.refVelB = Div(velT - velF, 2)
          /\ s.rightFootTask.refVelB = Div(velT + velF, 2)

C14_ReferencesZeroOutsideDS == [][call'.op = "Stabilizer::run" => C14_Cycle]_vars

\* C14 witness: a cycle in double support in the air, the feet at different
\* heights, ends with the references and the diagnostics at zero
C14_Witness ==
  /\ call.op = "Stabilizer::run"
  /\ stab.contactState = "DoubleSupport"
  /\ stab.inTheAir
  /\ call.in.LTz # call.in.RTz
  /\ stab.leftFootTask.refVelB = 0
  /\ stab.rightFootTask.refVelB = 0
  /\ stab.vfcZCtrl = 0
  /\ stab.vdcZPos = 0


\* Plan selection: plans are loaded by name, some of them too short, between
\* stabilizer cycles, measurements and moves of the reference
LoadNames == {LevelPlan, SteppedPlan} \cup ShortPlanNames

LoadMeasurements == {StandingMeasurement, LaggingMeasurement}

InitLoad == \E name \in LoadNames : ConstructedOn(ShippedConfig, StandingMeasurement, name)

NextLoad ==
  \/ LoadFootstepPlanOn(LoadNames)
  \/ PlanAdvance
  \/ StabRunOn(NominalRun(stab))
  \/ StabUpdateStateOn(LoadMeasurements)
  \/ PendulumUpdate
  \/ GuiTemplateModel

SpecLoad == InitLoad /\ [][NextLoad]_vars

(***************************************************************************)
(* C16: after Controller::loadFootstepPlan(name) has loaded a plan, the    *)
(* active plan is the named plan, moved to the height the robot stands at  *)
(* and rewound, and the Pendulum and the Stabilizer are in their reset     *)
(* state: the pendulum at rest, the stabilizer's errors, integrators and   *)
(* CoM offsets at zero.                                                    *)
(***************************************************************************)
C16_PlanLoaded(before, after, name) ==
  /\ after.name = name
  /\ after.advances = 0
  /\ supportContact(after).id = 0
  /\ targetContact(after).id = 1
  /\ supportContact(after).z = name[1] + supportContact(before).z

C16_PendulumReset(pen) == pen.comd = VZero /\ pen.comdd = VZero

C16_StabilizerReset(s) ==
  /\ s.dcmError = VZero
  /\ s.dcmAverageError = VZero
  /\ s.dcmIntegrator.average = VZero
  /\ s.zmpccIntegrator.integral = VZero
  /\ s.altccIntegrator.integral = VZero
  /\ s.zmpccCoMOffset = VZero
  /\ s.altccCoMOffset = VZero
  /\ s.comOffset = VZero

C16_LoadResetsAll ==
  [][call'.op = "Controller::loadFootstepPlan" /\ call'.ret =>
       /\ C16_PlanLoaded(plan, plan', call'.in)
       /\ C16_PendulumReset(pendulum')
       /\ C16_StabilizerReset(stab')]_vars

(***************************************************************************)
(* C17: a plan of fewer than two contacts is never the active plan: the    *)
(* controller is not constructed on one, and a loadFootstepPlan() that     *)
(* names one ends with an error and leaves the active plan, its name and   *)
(* its cursor as they were.                                                *)
(***************************************************************************)
C17_Rejected ==
  call'.op = "Controller::loadFootstepPlan" /\ Len(call'.in) < 2 =>
    /\ ~call'.ret
    /\ plan' = plan

InitInterleaved == ConstructedOn(ShippedConfig, LaggingMeasurement, LevelPlan)

NextInterleaved ==
  \/ StabRunStepOn(NominalRun(stab))
  \/ GuiDisable
  \/ GuiReconfigure
  \/ GuiDCMFeedback
  \/ GuiTemplateModel

SpecInterleaved == InitInterleaved /\ [][NextInterleaved]_vars

(***************************************************************************)
(* C18: whatever the point of a cycle at which a gain change from the GUI  *)
(* (gain inputs, Disable, Reconfigure) takes effect, every gain that a     *)
(* statement of the cycle reads is within its safety range: the CoP        *)
(* admittance read by updateSupportFootGains, the DCM gains read by        *)
(* computeDesiredWrench, the CoM admittance read by                        *)
(* updateCoMAdmittanceControl and the force difference admittance read by  *)
(* updateFootForceDifferenceControl.                                       *)
(***************************************************************************)
C18_ReadInRange(s) ==
  LET k == Len(s.steps) IN
  /\ k = 2 => /\ C6_Within(s.copAdmittance.x, 0, MAX_COP_ADMITTANCE)
              /\ C6_Within(s.copAdmittance.y, 0, MAX_COP_ADMITTANCE)
  /\ k = 4 => /\ C6_Within(s.dcmGain, MIN_DCM_P_GAIN, MAX_DCM_P_GAIN)
              /\ C6_Within(s.dcmIntegralGain, 0, MAX_DCM_I_GAIN)
  /\ k = 6 => /\ C6_Within(s.comAdmittance.x, 0, MAX_COM_XY_ADMITTANCE)
              /\ C6_Within(s.comAdmittance.y, 0, MAX_COM_XY_ADMITTANCE)
              /\ C6_Within(s.comAdmittance.z, 0, MAX_COM_Z_ADMITTANCE)
  /\ k = 7 => C6_Within(s.dfzAdmittance, 0, MAX_DFZ_ADMITTANCE)

C18_InterleavedReadsInRange ==
  [][call'.op = "Stabilizer::run statement" => C18_ReadInRange(stab)]_vars

(***************************************************************************)
(* C19: at the end of every run() cycle the vertical drift control gains   *)
(* are within the ranges of their GUI input, whatever the configuration    *)
(* supplied: vdcFrequency_ in [0, 10], vdcStiffness_ in [0, 1e4] and       *)
(* vdcDamping_ in [0, 100].                                                *)
(***************************************************************************)
C19_VdcInRange(s) ==
  /\ C6_Within(s.vdcFrequency, 0, 10)
  /\ C6_Within(s.vdcStiffness, 0, 10000)
  /\ C6_Within(s.vdcDamping, 0, 100)

C19_VdcGainsClamped == [][call'.op = "Stabilizer::run" => C19_VdcInRange(stab')]_vars

(***************************************************************************)
(* C20: the leak rates of the ZMPCC and of the altitude integrator are     *)
(* never negative.                                                         *)
(***************************************************************************)
C20_LeakRatesNonNegative ==
  /\ stab.zmpccIntegrator.rate >= 0
  /\ stab.altccIntegrator.rate >= 0


\* CoM admittance: cycles in every contact state and under both models, the
\* measured state ahead of and above the reference, while the
\* only-in-double-support option is switched
InitAdmittance == ConstructedOn(OutOfRangeConfig, LeadingMeasurement, LevelPlan)

NextAdmittance ==
  \/ StabRunOn(NominalRun(stab))
  \/ StabContactState
  \/ GuiZmpccOnlyDS
  \/ GuiTemplateModel

SpecAdmittance == InitAdmittance /\ [][NextAdmittance]_vars

(***************************************************************************)
(* C21: in a cycle outside double support with the only-in-double-support  *)
(* option on, the ZMPCC integrator takes a zero input and the ZMPCC CoM    *)
(* velocity and acceleration are zero whatever the ZMP error; in any other *)
(* cycle the ZMPCC velocity is minus the ZMP error scaled by the           *)
(* horizontal CoM admittance, with no vertical component.  In both cases   *)
(* zmpccCoMOffset_ is the integrator's value after the update.             *)
(***************************************************************************)
C21_Cycle ==
  LET s == stab' IN
  /\ s.zmpccCoMOffset = s.zmpccIntegrator.integral
  /\ IF stab.zmpccOnlyDS /\ stab.contactState # "DoubleSupport"
     THEN /\ s.zmpccIntegrator = LeakyAdd(stab.zmpccIntegrator, VZero)
          /\ s.zmpccCoMVel = VZero
          /\ s.zmpccCoMAccel = VZero
     ELSE /\ s.zmpccCoMVel.x = -(s.comAdmittance.x * s.zmpccError.x)
          /\ s.zmpccCoMVel.z = 0
          /\ s.zmpccIntegrator = LeakyAdd(stab.zmpccIntegrator, s.zmpccCoMVel)

C21_ZmpccOnlyInDS == [][call'.op = "Stabilizer::run" => C21_Cycle]_vars

\* C21 witness: a cycle on the left foot with the option on and a ZMP error
\* that the admittance would have fed back, the integrator leaking what it
\* had accumulated
C21_Witness ==
  /\ call.op = "Stabilizer::run"
  /\ stab.zmpccOnlyDS
  /\ stab.contactState = "LeftFoot"
  /\ stab.zmpccError.x # 0
  /\ stab.comAdmittance.x > 0
  /\ stab.zmpccCoMVel = VZero
  /\ stab.zmpccCoMAccel = VZero
  /\ stab.zmpccCoMOffset # VZero


(***************************************************************************)
(* C22: in a cycle under the linear model the altitude integrator takes a  *)
(* zero input, the altitude CoM velocity and acceleration are zero         *)
(* whatever the distributed and measured forces, and altccCoMOffset_ is    *)
(* the value the integrator has leaked to; a cycle ends with an altitude   *)
(* velocity other than zero only under the variable-height model.  So the  *)
(* first cycle after a switch from the variable-height to the linear model *)
(* zeroes the velocity and the acceleration.                               *)
(***************************************************************************)
C22_Cycle ==
  LET s == stab' IN
  /\ stab.model = "LinearInvertedPendulum" =>
       /\ s.altccIntegrator = LeakyAdd(stab.altccIntegrator, VZero)
       /\ s.altccCoMVel = VZero
       /\ s.altccCoMAccel = VZero
       /\ s.altccCoMOffset = s.altccIntegrator.integral
  /\ s.altccCoMVel # VZero => stab.model = "VariableHeightInvertedPendulum"

C22_AltitudeOnlyUnderVHIP == [][call'.op = "Stabilizer::run" => C22_Cycle]_vars

\* C22 witness: a cycle under the linear model, the distributed and the
\* measured force apart, ends with no altitude velocity and with an offset
\* left by earlier cycles of the variable-height model
C22_Witness ==
  /\ call.op = "Stabilizer::run"
  /\ stab.model = "LinearInvertedPendulum"
  /\ stab.distribLambda # stab.measuredLambda
  /\ stab.comAdmittance.z > 0
  /\ stab.altccCoMVel = VZero
  /\ stab.altccCoMAccel = VZero
  /\ stab.altccCoMOffset # VZero


(***************************************************************************)
(* The override of the double support duration: the FSM states set it with *)
(* nextDoubleSupportDuration() and read the duration of a phase with       *)
(* doubleSupportDuration(), between and within the ticks of the controller *)
(***************************************************************************)
\* Durations handed to nextDoubleSupportDuration(), in ticks
Overrides == { -1, 0, 5, 30 }

\* Controller::nextDoubleSupportDuration(d)
CtlNextDoubleSupportDuration ==
  \E d \in Overrides :
    /\ ctl' = nextDoubleSupportDuration(ctl, d)
    /\ call' = [op |-> "Controller::nextDoubleSupportDuration", in |-> d, ret |-> TRUE,
                calls |-> <<>>, failedSolves |-> call.failedSolves]
    /\ UNCHANGED <<stab, pendulum, plan>>

\* Controller::doubleSupportDuration(); ret is the duration returned
CtlDoubleSupportDuration ==
  /\ ctl' = doubleSupportDuration(ctl).ctl
  /\ call' = [op |-> "Controller::doubleSupportDuration",
              in |-> ctl.doubleSupportDurationOverride,
              ret |-> doubleSupportDuration(ctl).duration,
              calls |-> <<>>, failedSolves |-> call.failedSolves]
  /\ UNCHANGED <<stab, pendulum, plan>>

\* Ticks whose MPC solves succeed
OverrideTicks(w) ==
  TickInputsOf(w, {Vec(0, 100)}, {s \in Solves : s.solved /\ s.solution = 1},
               {NominalPendulum})

InitOverride == ConstructedOn(ShippedConfig, StandingMeasurement, LevelPlan)

NextOverride ==
  \/ CtlNextDoubleSupportDuration
  \/ CtlDoubleSupportDuration
  \/ CtlRunOn(OverrideTicks(World(stab, pendulum, ctl, plan)))

SpecOverride == InitOverride /\ [][NextOverride]_vars

(***************************************************************************)
(* C23: nextDoubleSupportDuration(d) leaves d as the override, whatever    *)
(* override was pending; doubleSupportDuration() returns a pending         *)
(* override d > 0 and the plan's duration otherwise, and leaves no         *)
(* override pending; and no other operation makes an override pending, so  *)
(* the reads after the first return the plan's duration until              *)
(* nextDoubleSupportDuration() is called again.                            *)
(***************************************************************************)
C23_Pending(c) == c.doubleSupportDurationOverride > 0

C23_Step ==
  /\ call'.op = "Controller::nextDoubleSupportDuration"
       => ctl'.doubleSupportDurationOverride = call'.in
  /\ call'.op = "Controller::doubleSupportDuration"
       => /\ call'.ret = IF C23_Pending(ctl) THEN ctl.doubleSupportDurationOverride
                         ELSE DSP_DURATION
          /\ ~C23_Pending(ctl')
  /\ call'.op # "Controller::nextDoubleSupportDuration"
       => (C23_Pending(ctl') => ctl'.doubleSupportDurationOverride
                                  = ctl.doubleSupportDurationOverride)

C23_OverrideOneShot == [][C23_Step]_vars

\* C23 witness: a read that returned an override in place of the plan's
\* duration and cleared it
C23_Witness ==
  /\ call.op = "Controller::doubleSupportDuration"
  /\ call.in = 5
  /\ call.ret = 5
  /\ ctl.doubleSupportDurationOverride = -1
  /\ ctl.running


(***************************************************************************)
(* C24: pauseWalking goes from false to true only in a call of             *)
(* pauseWalkingCallback(), from the GUI or from the tick, made while the   *)
(* support and the target contact are at most MAX_HEIGHT_DIFF apart in     *)
(* height; a call from the GUI while they are further apart, walking not   *)
(* paused, does no more than raise pauseWalkingRequested; a call while     *)
(* pauseWalking is true changes nothing; and the two flags are never true  *)
(* together.                                                               *)
(***************************************************************************)
C24_Uneven(p) == Abs(supportContact(p).z - targetContact(p).z) > MAX_HEIGHT_DIFF

C24_Step ==
  /\ (~ctl.pauseWalking /\ ctl'.pauseWalking)
       => /\ call'.op \in {"Pause walking", "Controller::run"}
          /\ ~C24_Uneven(plan)
  /\ (call'.op = "Pause walking" /\ ~ctl.pauseWalking /\ C24_Uneven(plan))
       => ctl' = [ctl EXCEPT !.pauseWalkingRequested = TRUE]
  /\ (call'.op = "Pause walking" /\ ctl.pauseWalking) => ctl' = ctl

C24_NoPauseOnUnevenGround ==
  /\ [](~(ctl.pauseWalking /\ ctl.pauseWalkingRequested))
  /\ [][C24_Step]_vars

\* C24 witness: the pause button was pressed during a step between contacts
\* at different heights, and the pause is pending
C24_Witness ==
  /\ call.op = "Pause walking"
  /\ C24_Uneven(plan)
  /\ ctl.running
  /\ ctl.pauseWalkingRequested
  /\ ~ctl.pauseWalking


(***************************************************************************)
(* The controller with its control loop running: Controller::run() is      *)
(* called at every period of the loop, so a tick that stays possible is    *)
(* eventually taken                                                        *)
(***************************************************************************)
\* The calls a tick makes to internalReset() and updatePreview()
TickCallLists ==
  LET Calls == {<<"internalReset">>}
                 \cup {<<"updatePreview", solved, ret>> : solved, ret \in BOOLEAN}
  IN {<<>>} \cup {<<c>> : c \in Calls} \cup {<<c, d>> : c, d \in Calls}

\* A tick of Controller::run() past the emergency stop, by the record it
\* leaves in call: no other operation leaves one of Controller::run
CtlRunTaken ==
  /\ ~ctl.emergencyStop
  /\ ctl.ctlTime < MaxTicks
  /\ call' \in [op : {"Controller::run"},
                in : TickInputs(World(stab, pendulum, ctl, plan)),
                ret : BOOLEAN,
                calls : TickCallLists,
                failedSolves : 0..(MaxFailures + 1)]

SpecCtlLive ==
  /\ InitCtl
  /\ [][NextCtl]_vars
  /\ WF_call(CtlRunTaken)

(***************************************************************************)
(* C25: a tick that is not emergency-stopped, taken with a pause request   *)
(* pending and the support and target contacts at most MAX_HEIGHT_DIFF     *)
(* apart in height, clears the request and pauses walking: pauseWalking is *)
(* true after it unless the double support phase started in the same tick  *)
(* has taken the pause or the tick has reset the controller.  Any other    *)
(* tick leaves the request pending unless it resets the controller, and    *)
(* nothing but a tick or the pause button ends a pending request.  With    *)
(* the control loop running, a request does not stay pending for ever      *)
(* while ticks are possible, not stopped and on even ground.               *)
(***************************************************************************)
C25_Honouring == ~ctl.emergencyStop /\ ~C24_Uneven(plan)

C25_Taken ==
  \/ ctl'.pauseWalking
  \/ ctl.fsm # "DoubleSupport" /\ ctl'.fsm = "DoubleSupport" /\ ctl'.stopDuringThisDSP

C25_Reset == \E i \in 1..Len(call'.calls) : call'.calls[i] = <<"internalReset">>

C25_Step ==
  /\ (call'.op = "Controller::run" /\ ctl.pauseWalkingRequested /\ C25_Honouring)
       => /\ ~ctl'.pauseWalkingRequested
          /\ C25_Taken \/ C25_Reset
  /\ (call'.op = "Controller::run" /\ ctl.pauseWalkingRequested /\ ~C25_Honouring)
       => ctl'.pauseWalkingRequested \/ C25_Reset
  /\ (ctl.pauseWalkingRequested /\ ~ctl'.pauseWalkingRequested)
       => call'.op \in {"Controller::run", "Pause walking"}

C25_DeferredPauseHonoured ==
  /\ [][C25_Step]_vars
  /\ (ctl.pauseWalkingRequested /\ C25_Honouring /\ ctl.ctlTime < MaxTicks)
       ~> (~ctl.pauseWalkingRequested \/ ~C25_Honouring)

\* C25 witness: a tick has honoured a request that was deferred during a
\* step between contacts at different heights
C25_Witness ==
  /\ call.op = "Controller::run"
  /\ call.ret
  /\ plan.name = SteppedPlan
  /\ plan.advances > 0
  /\ ctl.pauseWalking
  /\ ~ctl.pauseWalkingRequested


(***************************************************************************)
(* C26, the part about the samples: after phaseDurations() every sample i  *)
(* of 0..NB_STEPS has indexToHrep(i) in 0..3, and indexToHrep does not     *)
(* decrease with i.  The part about the four step counts is in             *)
(* C26_CountsFillHorizon.                                                  *)
(***************************************************************************)
C26_IndexValidMonotone ==
  call.op = "ModelPredictiveControl::phaseDurations" =>
    /\ \A i \in 0..NB_STEPS : call.ret.indexToHrep[i] \in 0..3
    /\ \A i \in 0..(NB_STEPS - 1) :
         call.ret.indexToHrep[i] <= call.ret.indexToHrep[i + 1]

\* C26, the part about the counts: the four step counts sum to NB_STEPS.
\* It rests on how the counts of a half preview are kept by the body of
\* phaseDurations(): here the first double support keeps the count asked
\* for, and only its samples reach the end of the horizon.
C26_CountsFillHorizon ==
  call.op = "ModelPredictiveControl::phaseDurations" =>
    call.ret.nbInitSupportSteps + call.ret.nbDoubleSupportSteps
      + call.ret.nbTargetSupportSteps + call.ret.nbNextDoubleSupportSteps = NB_STEPS


(***************************************************************************)
(* The left foot ratio and the CoM velocity filter: the walking states set *)
(* the ratio with leftFootRatio(), the tick observes the CoM with          *)
(* updateRealFromKinematics()                                              *)
(***************************************************************************)
\* Ratios handed to leftFootRatio(), in percent: below and above [0, 1], and
\* a step away from the middle
RatiosAsked == { -10, 55, 120 }

\* CoM of the observed robot, away from where the ticks observe it
ObservedComs == { Vec(4, 100) }

\* Controller::leftFootRatio(ratio)
CtlLeftFootRatio ==
  \E ratio \in RatiosAsked :
    /\ ctl' = leftFootRatio(ctl, ratio)
    /\ call' = [op |-> "Controller::leftFootRatio", in |-> ratio, ret |-> TRUE,
                calls |-> <<>>, failedSolves |-> call.failedSolves]
    /\ UNCHANGED <<stab, pendulum, plan>>

\* Controller::updateRealFromKinematics() with the observed robot at realCom
CtlUpdateRealFromKinematics ==
  \E realCom \in ObservedComs :
    /\ ctl' = updateRealFromKinematics(ctl, realCom)
    /\ call' = [op |-> "Controller::updateRealFromKinematics", in |-> realCom,
                ret |-> TRUE, calls |-> <<>>, failedSolves |-> call.failedSolves]
    /\ UNCHANGED <<stab, pendulum, plan>>

\* Ticks whose MPC solves succeed and whose walking states ask for the
\* whole weight on the left foot
RatioTicks(w) ==
  { in \in TickInputsOf(w, {Vec(0, 100)}, {s \in Solves : s.solved /\ s.solution = 1},
                        {NominalPendulum}) :
      in.ratio = 100 \/ ~w.ctl.running \/ w.ctl.emergencyStop
        \/ w.ctl.fsm \in {"Initial", "SingleSupport"} }

InitRatio == ConstructedOn(ShippedConfig, StandingMeasurement, LevelPlan)

NextRatio ==
  \/ CtlLeftFootRatio
  \/ CtlUpdateRealFromKinematics
  \/ CtlRunOn(RatioTicks(World(stab, pendulum, ctl, plan)))

SpecRatio == InitRatio /\ [][NextRatio]_vars

(***************************************************************************)
(* C27: leftFootRatio(r) leaves a ratio within [0, 1] and raises the jump  *)
(* flag when r is more than 1.5 timeStep / plan.doubleSupportDuration()    *)
(* away from the ratio before, leaving the flag as it was otherwise.       *)
(* updateRealFromKinematics() with the flag raised moves the position of   *)
(* the CoM velocity filter and keeps its velocity; with the flag down it   *)
(* does the full update of the filter; either way the flag is down after   *)
(* it, so one update is suppressed for a jump and the next is full.  The   *)
(* update made by a tick of the running controller goes the same way.      *)
(***************************************************************************)
C27_Jump(from, to) == DSP_DURATION * Abs(to - from) > 150

C27_Updated(c, realCom) ==
  IF c.leftFootRatioJumped
  THEN [pos |-> realCom, vel |-> c.comVelFilter.vel]
  ELSE filterUpdate(c.comVelFilter, realCom)

C27_Step ==
  /\ call'.op = "Controller::leftFootRatio"
       => /\ ctl'.leftFootRatio \in 0..100
          /\ ctl'.leftFootRatioJumped
               = (ctl.leftFootRatioJumped \/ C27_Jump(ctl.leftFootRatio, call'.in))
  /\ call'.op = "Controller::updateRealFromKinematics"
       => /\ ~ctl'.leftFootRatioJumped
          /\ ctl'.comVelFilter = C27_Updated(ctl, call'.in)
          /\ ctl'.realComd = ctl'.comVelFilter.vel
  /\ (call'.op = "Controller::run" /\ call'.ret /\ ctl.running /\ ~C25_Reset)
       => /\ ctl'.comVelFilter = C27_Updated(ctl, call'.in.realCom)
          /\ ctl'.realComd = ctl'.comVelFilter.vel

C27_JumpSuppressesOneUpdate ==
  /\ [](ctl.leftFootRatio \in 0..100)
  /\ [][C27_Step]_vars

\* C27 witness: an update that moved the position of the filter and kept
\* its velocity, the ratio having jumped to a clamped value before it
C27_Witness ==
  /\ call.op = "Controller::updateRealFromKinematics"
  /\ ctl.leftFootRatio = 100
  /\ ~ctl.leftFootRatioJumped
  /\ call.in = Vec(4, 100)
  /\ ctl.comVelFilter.pos = Vec(4, 100)
  /\ ctl.comVelFilter.vel = Vec(-1, 0)


(***************************************************************************)
(* C28: disable() leaves the CoM admittance, the CoP admittance, the DCM   *)
(* proportional and integral gains, the DFz admittance and the frequency   *)
(* and stiffness of the vertical drift control at zero, and a run() cycle  *)
(* that starts with all of them at zero ends with all of them at zero.     *)
(***************************************************************************)
C28_ZeroButDCMGain(s) ==
  /\ s.comAdmittance = [x |-> 0, y |-> 0, z |-> 0]
  /\ s.copAdmittance = [x |-> 0, y |-> 0]
  /\ s.dcmIntegralGain = 0
  /\ s.dfzAdmittance = 0
  /\ s.vdcFrequency = 0
  /\ s.vdcStiffness = 0

C28_Disabled(s) == C28_ZeroButDCMGain(s) /\ s.dcmGain = 0

C28_Step ==
  /\ call'.op = "Disable" => C28_Disabled(stab')
  /\ (call'.op = "Stabilizer::run" /\ C28_Disabled(stab)) => C28_Disabled(stab')

C28_DisablePersists == [][C28_Step]_vars

\* What a cycle keeps of a disabled stabilizer: every gain that disable()
\* zeroed but the DCM proportional gain, which checkGains() raises to
\* MIN_DCM_P_GAIN
C28_CycleKeeps ==
  [][(call'.op = "Stabilizer::run" /\ C28_ZeroButDCMGain(stab))
       => (C28_ZeroButDCMGain(stab') /\ stab'.dcmGain >= MIN_DCM_P_GAIN)]_vars


(***************************************************************************)
(* Single support with the measured CoM rising fast: the desired vertical  *)
(* force, mass (comdd.z + omega (comd.z - measured comd.z) + g), is then   *)
(* negative.  The single-support QP minimises |w_c - X_0_c* desiredWrench| *)
(* under F X_0_c* w_0 <= 0 alone, a cone with the zero wrench at its apex: *)
(* for a desired wrench that pushes straight down through the contact the  *)
(* minimum is the zero wrench.                                             *)
(***************************************************************************)
\* The measured CoM above the left foot, rising at more than g / omega
RisingMeasurement ==
  [com |-> Vec(0, 100), comd |-> Vec(0, 320), wrench |-> staticWrench, lfr |-> 100]

\* The result of the single-support QP at the apex of the cone
SSUnloaded == Wrench(0, VZero)

\* The wrench w_c, in the contact frame, pushes straight down through the
\* origin of the contact
pushesDown(w_c) == w_c.couple = 0 /\ w_c.force.x = 0 /\ w_c.force.z <= 0

\* The pose of the foot task of the support foot
supportPose(s) ==
  IF s.contactState = "RightFoot" THEN s.rightFootTask.targetPose
  ELSE s.leftFootTask.targetPose

\* Cycles with both QPs solved: in single support the result is the zero
\* wrench exactly when the desired wrench of the cycle pushes down
UnloadedInputs(s, pen) ==
  { in \in RunInputsOf(s, {FeetOnGround}, {FeetLevel}, {StrongMinimum}, {VHIPNominal},
                       {StrongMinimum}, {DSNominal}, {SSNominal, SSUnloaded}) :
      (in.ssResult = SSUnloaded)
        <=> /\ s.contactState # "DoubleSupport"
            /\ pushesDown(dualMul(supportPose(s), run(s, pen, in).desiredWrench)) }

InitUnloaded == ConstructedOn(ShippedConfig, StandingMeasurement, LevelPlan)

NextUnloaded ==
  \/ StabRunOn(UnloadedInputs(stab, pendulum))
  \/ StabUpdateStateOn({StandingMeasurement, LaggingMeasurement, RisingMeasurement})
  \/ StabContactState
  \/ GuiTemplateModel
  \/ GuiDCMFeedback

SpecUnloaded == InitUnloaded /\ [][NextUnloaded]_vars

(***************************************************************************)
(* C29: in a cycle in single support whose distribution QP ends with a     *)
(* strong minimum, the vertical force of the solved contact wrench in the  *)
(* contact frame, by which the target CoP written to the foot task of the  *)
(* support foot is divided, is strictly positive.                          *)
(***************************************************************************)
C29_SupportTask(s) ==
  IF s.contactState = "RightFoot" THEN s.rightFootTask ELSE s.leftFootTask

C29_Cycle ==
  (stab.contactState # "DoubleSupport" /\ call'.in.fdqp.inform = "STRONG_MINIMUM")
    => /\ C29_SupportTask(stab').targetForce.z > 0
       /\ C29_SupportTask(stab').targetCoP # NaN

C29_SSPressurePositive == [][call'.op = "Stabilizer::run" => C29_Cycle]_vars


(***************************************************************************)
(* C30: in every contact state the ZMP area that updateZMPFrame() builds   *)
(* has 4 rows, so the variable-height feedback QP of the cycle has         *)
(* 3 + 3 + 1 + 4 + 1 constraints, and no cycle logs 'Invalid number of     *)
(* constraints in VHIP feedback QP'.                                       *)
(***************************************************************************)
C30_Logged(s, msg) == \E i \in 1..Len(s.log) : s.log[i] = msg

C30_Cycle ==
  /\ stab'.zmpAreaRows = 4
  /\ 3 + 3 + 1 + stab'.zmpAreaRows + 1 = 12
  /\ ~C30_Logged(stab', "Invalid number of constraints in VHIP feedback QP")

C30_ConstraintCountHolds == [][call'.op = "Stabilizer::run" => C30_Cycle]_vars

\* C30 witness: a cycle of the variable-height model in single support has
\* built its area and gone through the feedback QP
C30_Witness ==
  /\ call.op = "Stabilizer::run"
  /\ stab.model = "VariableHeightInvertedPendulum"
  /\ stab.contactState = "LeftFoot"
  /\ stab.zmpAreaRows = 4
  /\ \E i \in 1..Len(stab.steps) : stab.steps[i] = "computeDesiredWrench"
  /\ stab.log = <<>>

====
